---- MODULE Spec2Model ----
(***************************************************************************)
(* Price-tracker crawl core: the cron entrypoints, the invocation lock,    *)
(* the lease claimer and the per-company pipeline of the batch runner.     *)
(*                                                                         *)
(* Time is counted in minutes.  Every `await` on the store is one step of  *)
(* the invocation that issues it; synchronous code between two awaits is   *)
(* folded into the step of the await that follows it.                      *)
(***************************************************************************)
EXTENDS Integers, Sequences, FiniteSets, TLC

(***************************************************************************)
(* Bounds of the model.                                                    *)
(***************************************************************************)
NumInv == 2
NumComp == 2
MaxAdvances == 2
NumApi == 2
NumWriters == 4
NumDeliveries == 3
MaxTicks == 4

(***************************************************************************)
(* Program constants (minutes).                                            *)
(***************************************************************************)
CRAWL_CRON_LOCK_TTL_MS == 8
DIGEST_CRON_LOCK_TTL_MS == 45
CRAWL_LEASE_MS == 6
SUCCESS_CRAWL_DELAY_MS == 1440
ERROR_BACKOFF_MS == 360
BLOCKED_BACKOFF_MS == 2160
MANUAL_NEEDED_BACKOFF_MS == 2880
DEFAULT_CRAWL_BATCH_LIMIT == 3
MAX_CRAWL_BATCH_LIMIT == 20

CRAWL_BATCH_LIMIT == DEFAULT_CRAWL_BATCH_LIMIT
CRAWL_CRON_LOCK_KEY == "cron:crawl"
DIGEST_CRON_LOCK_KEY == "cron:digest"

Absent == -1
NoRecord == [ownerId |-> 0, lockUntil |-> Absent, lockedAt |-> Absent, lastReleasedAt |-> Absent]

Inv == 1..NumInv
Comp == 1..NumComp
LockKeys == {CRAWL_CRON_LOCK_KEY, DIGEST_CRON_LOCK_KEY}

Min(a, b) == IF a < b THEN a ELSE b
Max(a, b) == IF a > b THEN a ELSE b


(***************************************************************************)
(* Pricing payloads.  Amounts are in cents; confidences in hundredths.     *)
(***************************************************************************)
NoHash == "none"
NoUrl == "none"
VERIFIED_CONFIDENCE_THRESHOLD == 75

Range(s) == {s[k] : k \in 1..Len(s)}

(* A text is a sequence of characters; NoText is null. *)
NoText == <<"null">>

(* Position of a character in the collation of localeCompare. *)
CharRank(ch) == CASE ch = " " -> 0 [] ch = "a" -> 1 [] ch = "A" -> 2 [] ch = "b" -> 3
                  [] ch = "B" -> 4 [] ch = "c" -> 5 [] ch = "s" -> 6 [] OTHER -> 7

toLowerCase(ch) == CASE ch = "A" -> "a" [] ch = "B" -> "b" [] OTHER -> ch

RECURSIVE collapseWhitespace(_)
collapseWhitespace(text) ==
    IF Len(text) <= 1 THEN text
    ELSE IF text[1] = " " /\ text[2] = " " THEN collapseWhitespace(Tail(text))
    ELSE <<text[1]>> \o collapseWhitespace(Tail(text))

trim(text) ==
    LET inner == {k \in 1..Len(text) : text[k] # " "}
    IN  IF inner = {} THEN <<>>
        ELSE SubSeq(text, CHOOSE k \in inner : \A o \in inner : k <= o,
                          CHOOSE k \in inner : \A o \in inner : k >= o)

(* value.replace(/\s+/g, " ").trim() *)
normalizeWhitespace(value) == trim(collapseWhitespace(value))

RECURSIVE localeCompare(_, _)
localeCompare(a, b) ==
    IF a = <<>> /\ b = <<>> THEN 0
    ELSE IF a = <<>> THEN -1
    ELSE IF b = <<>> THEN 1
    ELSE IF CharRank(a[1]) # CharRank(b[1])
         THEN (IF CharRank(a[1]) < CharRank(b[1]) THEN -1 ELSE 1)
    ELSE localeCompare(Tail(a), Tail(b))

TextBefore(a, b) == localeCompare(a, b) < 0

RECURSIVE SetOrder(_, _)
SetOrder(items, seen) ==
    IF items = <<>> THEN <<>>
    ELSE IF Head(items) \in seen THEN SetOrder(Tail(items), seen)
    ELSE <<Head(items)>> \o SetOrder(Tail(items), seen \cup {Head(items)})

uniqueStrings(items) ==
    LET normalized == [k \in 1..Len(items) |->
                          [c \in 1..Len(normalizeWhitespace(items[k])) |->
                              toLowerCase(normalizeWhitespace(items[k])[c])]]
        nonEmpty == SelectSeq(SetOrder(normalized, {}), LAMBDA item : Len(item) > 0)
    IN  SortSeq(nonEmpty, TextBefore)

toUpperCase(currency) ==
    CASE currency = "usd" -> "USD" [] currency = "eur" -> "EUR" [] OTHER -> currency

CurrencyRank(c) == CASE c = "EUR" -> 1 [] c = "USD" -> 2 [] OTHER -> 3
PeriodRank(p) == CASE p = "day" -> 1 [] p = "month" -> 2 [] p = "one_time" -> 3
                   [] p = "unknown" -> 4 [] p = "week" -> 5 [] OTHER -> 6

PriceKey(p) == <<p.currency, p.period, p.amount>>

PriceBefore(a, b) ==
    IF a.currency # b.currency THEN CurrencyRank(a.currency) < CurrencyRank(b.currency)
    ELSE IF a.period # b.period THEN PeriodRank(a.period) < PeriodRank(b.period)
    ELSE a.amount < b.amount

RECURSIVE KeepFirst(_, _)
KeepFirst(prices, seen) ==
    IF prices = <<>> THEN <<>>
    ELSE IF PriceKey(Head(prices)) \in seen THEN KeepFirst(Tail(prices), seen)
    ELSE <<[Head(prices) EXCEPT !.currency = toUpperCase(@)]>>
         \o KeepFirst(Tail(prices), seen \cup {PriceKey(Head(prices))})

(* Amounts are in cents, the two decimals toFixed(2) rounds to. *)
uniquePrices(prices) == SortSeq(KeepFirst(prices, {}), PriceBefore)

canonicalizePricingPayload(payload) ==
    [sourceUrl |-> payload.sourceUrl,
     pageTitle |-> IF payload.pageTitle # NoText /\ payload.pageTitle # <<>>
                   THEN normalizeWhitespace(payload.pageTitle) ELSE NoText,
     pageDescription |-> IF payload.pageDescription # NoText /\ payload.pageDescription # <<>>
                         THEN normalizeWhitespace(payload.pageDescription) ELSE NoText,
     planNames |-> uniqueStrings(payload.planNames),
     priceMentions |-> uniquePrices(payload.priceMentions),
     customPricingHints |-> uniqueStrings(payload.customPricingHints)]

toNormalizedPayload(payload) == canonicalizePricingPayload(payload)

(***************************************************************************)
(* Diff engine.                                                            *)
(***************************************************************************)
NoDiff == [none |-> TRUE]

BucketKeys(payload) == {<<p.currency, p.period>> : p \in Range(payload.priceMentions)}

AmountBefore(a, b) == a < b

RECURSIVE AmountsOf(_, _)
AmountsOf(prices, key) ==
    IF prices = <<>> THEN <<>>
    ELSE IF <<Head(prices).currency, Head(prices).period>> = key
         THEN <<Head(prices).amount>> \o AmountsOf(Tail(prices), key)
         ELSE AmountsOf(Tail(prices), key)

toBucketMap(payload) ==
    [key \in BucketKeys(payload) |-> SortSeq(AmountsOf(payload.priceMentions, key), AmountBefore)]

BucketOrEmpty(buckets, key) == IF key \in DOMAIN buckets THEN buckets[key] ELSE <<>>

Abs(x) == IF x < 0 THEN 0 - x ELSE x

(* deltaPercent in hundredths of a percent, rounded as toFixed(2) does. *)
DeltaPercent(previousAmount, currentAmount) ==
    IF previousAmount > 0
    THEN (Abs(currentAmount - previousAmount) * 20000 + previousAmount) \div (2 * previousAmount)
    ELSE 10000

(* A pairing that records every change of at least one percent. *)
IsUpdated_percentOnly(previousAmount, currentAmount) ==
    IF previousAmount > 0
    THEN Abs(currentAmount - previousAmount) * 100 >= previousAmount
    ELSE TRUE

IsUpdated(previousAmount, currentAmount) ==
    /\ Abs(currentAmount - previousAmount) >= 50
    /\ (IF previousAmount > 0
        THEN Abs(currentAmount - previousAmount) * 100 >= previousAmount
        ELSE TRUE)

createBucketChange(key, previousAmounts, currentAmounts) ==
    LET paired == Min(Len(previousAmounts), Len(currentAmounts))
    IN  [currency |-> key[1],
         period |-> key[2],
         addedAmounts |-> {currentAmounts[k] : k \in (Len(previousAmounts) + 1)..Len(currentAmounts)},
         removedAmounts |-> {previousAmounts[k] : k \in (Len(currentAmounts) + 1)..Len(previousAmounts)},
         updatedAmounts |->
            {[previousAmount |-> previousAmounts[k],
              currentAmount |-> currentAmounts[k],
              deltaPercent |-> DeltaPercent(previousAmounts[k], currentAmounts[k])] :
                k \in {n \in 1..paired : IsUpdated(previousAmounts[n], currentAmounts[n])}}]

BucketChangeIsEmpty(change) ==
    /\ change.addedAmounts = {}
    /\ change.removedAmounts = {}
    /\ change.updatedAmounts = {}

RECURSIVE CountAmounts(_, _)
CountAmounts(changes, field) ==
    IF changes = {} THEN 0
    ELSE LET c == CHOOSE x \in changes : TRUE
         IN  Cardinality(c[field]) + CountAmounts(changes \ {c}, field)

SetMax(S) == IF S = {} THEN 0 ELSE CHOOSE m \in S : \A n \in S : n <= m

determineSeverity(changes, customHintChanged) ==
    LET totalUpdates == CountAmounts(changes, "updatedAmounts")
        totalAdded == CountAmounts(changes, "addedAmounts")
        totalRemoved == CountAmounts(changes, "removedAmounts")
        maxDeltaPercent == SetMax(UNION {{u.deltaPercent : u \in c.updatedAmounts} : c \in changes})
    IN  IF maxDeltaPercent >= 2000 \/ (totalAdded >= 2 /\ totalRemoved >= 2) THEN "high"
        ELSE IF \/ maxDeltaPercent >= 1000
                \/ totalUpdates + totalAdded + totalRemoved >= 2
                \/ customHintChanged
             THEN "medium"
        ELSE "low"

toCustomHintSet(payload) == Range(payload.customPricingHints)

(* A diff engine without the early return of null. *)
generatePricingDiff_neverNull(previousPayload, currentPayload, currentSnapshotVerified) ==
    LET previousBuckets == toBucketMap(previousPayload)
        currentBuckets == toBucketMap(currentPayload)
        allKeys == DOMAIN previousBuckets \cup DOMAIN currentBuckets
        allChanges == {createBucketChange(key, BucketOrEmpty(previousBuckets, key),
                                          BucketOrEmpty(currentBuckets, key)) : key \in allKeys}
        bucketChanges == {c \in allChanges : ~BucketChangeIsEmpty(c)}
        addedHints == toCustomHintSet(currentPayload) \ toCustomHintSet(previousPayload)
        removedHints == toCustomHintSet(previousPayload) \ toCustomHintSet(currentPayload)
        customHintChanged == addedHints # {} \/ removedHints # {}
    IN  [priceChanges |-> bucketChanges,
         addedHints |-> addedHints,
         removedHints |-> removedHints,
         severity |-> determineSeverity(bucketChanges, customHintChanged),
         verificationState |-> IF currentSnapshotVerified THEN "verified" ELSE "unverified"]

generatePricingDiff(previousPayload, currentPayload, currentSnapshotVerified) ==
    LET previousBuckets == toBucketMap(previousPayload)
        currentBuckets == toBucketMap(currentPayload)
        allKeys == DOMAIN previousBuckets \cup DOMAIN currentBuckets
        allChanges == {createBucketChange(key, BucketOrEmpty(previousBuckets, key),
                                          BucketOrEmpty(currentBuckets, key)) : key \in allKeys}
        bucketChanges == {c \in allChanges : ~BucketChangeIsEmpty(c)}
        addedHints == toCustomHintSet(currentPayload) \ toCustomHintSet(previousPayload)
        removedHints == toCustomHintSet(previousPayload) \ toCustomHintSet(currentPayload)
        customHintChanged == addedHints # {} \/ removedHints # {}
    IN  IF bucketChanges = {} /\ ~customHintChanged THEN NoDiff
        ELSE [priceChanges |-> bucketChanges,
              addedHints |-> addedHints,
              removedHints |-> removedHints,
              severity |-> determineSeverity(bucketChanges, customHintChanged),
              verificationState |-> IF currentSnapshotVerified THEN "verified" ELSE "unverified"]

(***************************************************************************)
(* Pricing extractor.  A page is what stripHtmlToText and the signal       *)
(* scanners see of a response body.                                        *)
(***************************************************************************)
Usd(amount) == [currency |-> "USD", period |-> "month", amount |-> amount]

(* The CUSTOM_PRICING_SIGNALS entry "contact sales", abbreviated. *)
ContactSales == <<"c", " ", "s">>

EmptyPage ==
    [contentHash |-> NoHash, html |-> FALSE, blockedText |-> FALSE, priceMentions |-> <<>>,
     pricingSignals |-> FALSE, customPricingHints |-> <<>>,
     pageTitle |-> NoText, pageDescription |-> NoText, planNames |-> <<>>]

Pages ==
    { [EmptyPage EXCEPT !.contentHash = "hA", !.html = TRUE, !.pricingSignals = TRUE,
                        !.priceMentions = <<Usd(4900), Usd(1900)>>],
      [EmptyPage EXCEPT !.contentHash = "hB", !.html = TRUE, !.pricingSignals = TRUE,
                        !.priceMentions = <<Usd(1900), Usd(4920)>>],
      [EmptyPage EXCEPT !.contentHash = "hC", !.html = TRUE, !.pricingSignals = TRUE,
                        !.priceMentions = <<Usd(1900), Usd(5900), Usd(1900)>>,
                        !.customPricingHints = <<ContactSales>>],
      [EmptyPage EXCEPT !.contentHash = "hD", !.html = TRUE, !.pricingSignals = TRUE,
                        !.priceMentions = <<Usd(4900), Usd(1900)>>,
                        !.customPricingHints = <<ContactSales>>],
      [EmptyPage EXCEPT !.contentHash = "hE", !.html = TRUE, !.blockedText = TRUE,
                        !.priceMentions = <<Usd(1900)>>],
      [EmptyPage EXCEPT !.contentHash = "hF", !.html = TRUE],
      [EmptyPage EXCEPT !.contentHash = "hG", !.pricingSignals = TRUE],
      [EmptyPage EXCEPT !.contentHash = "hH", !.html = TRUE, !.pricingSignals = TRUE,
                        !.priceMentions = <<Usd(5100), Usd(1900)>>],
      [EmptyPage EXCEPT !.contentHash = "hI", !.html = TRUE,
                        !.priceMentions = <<Usd(4900)>>] }

FetchStatuses == {408, 403, 404, 500}
BLOCKED_HTTP_STATUSES == {401, 403, 429}

(* What fetchStaticHtml can return: a failure with its status, or a body. *)
FetchResults ==
    {[ok |-> FALSE, status |-> st, page |-> EmptyPage] : st \in FetchStatuses}
    \cup {[ok |-> TRUE, status |-> 200, page |-> pg] : pg \in Pages}

EmptyPayload ==
    [sourceUrl |-> NoUrl, pageTitle |-> NoText, pageDescription |-> NoText, planNames |-> <<>>,
     priceMentions |-> <<>>, customPricingHints |-> <<>>]

ExtractionFailure(status, error) ==
    [status |-> status, error |-> error, contentHash |-> NoHash, pricingPayload |-> EmptyPayload,
     confidence |-> 0, isVerified |-> FALSE]

NoExtraction == ExtractionFailure("none", "")

classifyFetchFailure(result) ==
    IF result.status \in BLOCKED_HTTP_STATUSES THEN ExtractionFailure("blocked", "HTTP")
    ELSE IF result.status >= 400 /\ result.status < 500
         THEN ExtractionFailure("manual_needed", IF result.status = 408 THEN "Request timed out" ELSE "HTTP")
    ELSE ExtractionFailure("error", "HTTP")

getConfidence(prices, pricingSignals, customSignals) ==
    IF Len(prices) >= 3 THEN 90
    ELSE IF Len(prices) >= 1 THEN (IF pricingSignals THEN 78 ELSE 72)
    ELSE IF Len(customSignals) > 0 THEN 45
    ELSE IF pricingSignals THEN 40
    ELSE 0

(* An extractor that calls every page with a price verified. *)
fetchAndExtractPricing_verifiedByPrices(sourceUrl, fetched) ==
    IF ~fetched.ok THEN classifyFetchFailure(fetched)
    ELSE IF ~fetched.page.html
         THEN ExtractionFailure("manual_needed", "Pricing URL did not return HTML content")
    ELSE IF fetched.page.blockedText
         THEN ExtractionFailure("blocked", "Bot protection detected")
    ELSE IF /\ fetched.page.priceMentions = <<>>
            /\ ~fetched.page.pricingSignals
            /\ fetched.page.customPricingHints = <<>>
         THEN ExtractionFailure("manual_needed", "Pricing signals not detected on the page")
    ELSE LET payload == canonicalizePricingPayload(
                            [sourceUrl |-> sourceUrl,
                             pageTitle |-> fetched.page.pageTitle,
                             pageDescription |-> fetched.page.pageDescription,
                             planNames |-> fetched.page.planNames,
                             priceMentions |-> fetched.page.priceMentions,
                             customPricingHints |-> fetched.page.customPricingHints])
             confidence == getConfidence(fetched.page.priceMentions, fetched.page.pricingSignals,
                                         fetched.page.customPricingHints)
         IN  [status |-> "ok", error |-> "", contentHash |-> fetched.page.contentHash,
              pricingPayload |-> payload, confidence |-> confidence,
              isVerified |-> Len(payload.priceMentions) > 0]

(* An extraction that does not look for BLOCKED_TEXT_SIGNALS. *)
fetchAndExtractPricing_unguarded(sourceUrl, fetched) ==
    IF ~fetched.ok THEN classifyFetchFailure(fetched)
    ELSE IF ~fetched.page.html
         THEN ExtractionFailure("manual_needed", "Pricing URL did not return HTML content")
    ELSE IF /\ fetched.page.priceMentions = <<>>
            /\ ~fetched.page.pricingSignals
            /\ fetched.page.customPricingHints = <<>>
         THEN ExtractionFailure("manual_needed", "Pricing signals not detected on the page")
    ELSE LET payload == canonicalizePricingPayload(
                            [sourceUrl |-> sourceUrl,
                             pageTitle |-> fetched.page.pageTitle,
                             pageDescription |-> fetched.page.pageDescription,
                             planNames |-> fetched.page.planNames,
                             priceMentions |-> fetched.page.priceMentions,
                             customPricingHints |-> fetched.page.customPricingHints])
             confidence == getConfidence(fetched.page.priceMentions, fetched.page.pricingSignals,
                                         fetched.page.customPricingHints)
         IN  [status |-> "ok", error |-> "", contentHash |-> fetched.page.contentHash,
              pricingPayload |-> payload, confidence |-> confidence,
              isVerified |-> confidence >= VERIFIED_CONFIDENCE_THRESHOLD
                             /\ Len(payload.priceMentions) > 0]

fetchAndExtractPricing(sourceUrl, fetched) ==
    IF ~fetched.ok THEN classifyFetchFailure(fetched)
    ELSE IF ~fetched.page.html
         THEN ExtractionFailure("manual_needed", "Pricing URL did not return HTML content")
    ELSE IF fetched.page.blockedText
         THEN ExtractionFailure("blocked", "Bot protection detected")
    ELSE IF /\ fetched.page.priceMentions = <<>>
            /\ ~fetched.page.pricingSignals
            /\ fetched.page.customPricingHints = <<>>
         THEN ExtractionFailure("manual_needed", "Pricing signals not detected on the page")
    ELSE LET payload == canonicalizePricingPayload(
                            [sourceUrl |-> sourceUrl,
                             pageTitle |-> fetched.page.pageTitle,
                             pageDescription |-> fetched.page.pageDescription,
                             planNames |-> fetched.page.planNames,
                             priceMentions |-> fetched.page.priceMentions,
                             customPricingHints |-> fetched.page.customPricingHints])
             confidence == getConfidence(fetched.page.priceMentions, fetched.page.pricingSignals,
                                         fetched.page.customPricingHints)
         IN  [status |-> "ok", error |-> "", contentHash |-> fetched.page.contentHash,
              pricingPayload |-> payload, confidence |-> confidence,
              isVerified |-> confidence >= VERIFIED_CONFIDENCE_THRESHOLD
                             /\ Len(payload.priceMentions) > 0]

(***************************************************************************)
(* Entitlements.                                                           *)
(***************************************************************************)
PlanRule(planTier) ==
    IF planTier = "pro"
    THEN [competitorLimit |-> 10, insightSeverityGate |-> "high_and_medium", canReceiveWeeklyDigest |-> TRUE]
    ELSE [competitorLimit |-> 3, insightSeverityGate |-> "high_only", canReceiveWeeklyDigest |-> TRUE]

getAllowedInsightSeverities(gate) ==
    IF gate = "high_and_medium" THEN {"high", "medium"}
    ELSE IF gate = "high_only" THEN {"high"}
    ELSE {}

resolvePlanTierFromPriceId(priceId) ==
    IF priceId = "price_pro" THEN "pro"
    ELSE IF priceId = "price_starter" THEN "starter"
    ELSE "none"

(* A trial that counts as active whatever its end. *)
isTrialActive_ignoresEnd(user, now) ==
    user.trialStatus = "active"

isTrialActive(user, now) ==
    IF user.trialStatus # "active" \/ user.trialEndsAt = Absent THEN FALSE
    ELSE user.trialEndsAt > now

resolveEntitlements(user, now) ==
    IF user.hasAccess
    THEN LET resolved == resolvePlanTierFromPriceId(user.priceId)
             paidPlanTier == IF resolved = "none" THEN "starter" ELSE resolved
         IN  [hasAccess |-> TRUE, accessSource |-> "paid", planTier |-> paidPlanTier,
              competitorLimit |-> PlanRule(paidPlanTier).competitorLimit,
              insightSeverityGate |-> PlanRule(paidPlanTier).insightSeverityGate,
              allowedInsightSeverities |->
                  getAllowedInsightSeverities(PlanRule(paidPlanTier).insightSeverityGate),
              canReceiveWeeklyDigest |-> PlanRule(paidPlanTier).canReceiveWeeklyDigest]
    ELSE IF isTrialActive(user, now)
    THEN [hasAccess |-> TRUE, accessSource |-> "trial", planTier |-> "starter",
          competitorLimit |-> PlanRule("starter").competitorLimit,
          insightSeverityGate |-> PlanRule("starter").insightSeverityGate,
          allowedInsightSeverities |->
              getAllowedInsightSeverities(PlanRule("starter").insightSeverityGate),
          canReceiveWeeklyDigest |-> FALSE]
    ELSE [hasAccess |-> FALSE, accessSource |-> "none", planTier |-> "none",
          competitorLimit |-> 0, insightSeverityGate |-> "none",
          allowedInsightSeverities |-> {}, canReceiveWeeklyDigest |-> FALSE]

canAddCompetitor(entitlements, currentCount) ==
    entitlements.hasAccess /\ currentCount < entitlements.competitorLimit

(* A refresh that also ends a converted trial once the access is gone. *)
refreshTrialStatusIfExpired_unconverts(user, now) ==
    IF user.trialStatus = "converted" /\ ~user.hasAccess
    THEN [user EXCEPT !.trialStatus = "expired"]
    ELSE IF user.trialStatus # "active" THEN user
    ELSE IF user.hasAccess THEN [user EXCEPT !.trialStatus = "converted"]
    ELSE IF ~isTrialActive(user, now) THEN [user EXCEPT !.trialStatus = "expired"]
    ELSE user

(* The user document after refreshTrialStatusIfExpired. *)
refreshTrialStatusIfExpired(user, now) ==
    IF user.trialStatus # "active" THEN user
    ELSE IF user.hasAccess THEN [user EXCEPT !.trialStatus = "converted"]
    ELSE IF ~isTrialActive(user, now) THEN [user EXCEPT !.trialStatus = "expired"]
    ELSE user

(* A gate that looks at access only. *)
canGenerateInsight_accessOnly(entitlements, severity) ==
    entitlements.hasAccess

canGenerateInsight(entitlements, severity) ==
    entitlements.hasAccess /\ severity \in entitlements.allowedInsightSeverities

buildInsightFromDiff(user, severity, now) ==
    LET entitlements == resolveEntitlements(user, now)
    IN  IF entitlements.insightSeverityGate = "none"
        THEN [shouldCreate |-> FALSE, severityGate |-> "none"]
        ELSE IF ~canGenerateInsight(entitlements, severity)
        THEN [shouldCreate |-> FALSE, severityGate |-> entitlements.insightSeverityGate]
        ELSE [shouldCreate |-> TRUE, severityGate |-> entitlements.insightSeverityGate]

(***************************************************************************)
(* Runner helpers.                                                         *)
(***************************************************************************)
(* The result of parsing a text that does not start with a number. *)
NaN == -1000000

DigitValue(ch) ==
    CASE ch = "0" -> 0 [] ch = "1" -> 1 [] ch = "2" -> 2 [] ch = "3" -> 3 [] ch = "4" -> 4
      [] ch = "5" -> 5 [] ch = "6" -> 6 [] ch = "7" -> 7 [] ch = "8" -> 8 [] ch = "9" -> 9
      [] OTHER -> NaN

(* The digits a text starts with, read as a decimal number. *)
RECURSIVE leadingDigits(_, _)
leadingDigits(text, value) ==
    IF text = <<>> \/ DigitValue(Head(text)) = NaN THEN value
    ELSE leadingDigits(Tail(text), 10 * value + DigitValue(Head(text)))

(* Number.parseInt(raw, 10): an optional sign, then digits; anything after them is ignored. *)
parseInt(raw) ==
    LET negative == raw # <<>> /\ Head(raw) = "-"
        digits == IF negative THEN Tail(raw) ELSE raw
    IN  IF digits = <<>> \/ DigitValue(Head(digits)) = NaN THEN NaN
        ELSE IF negative THEN 0 - leadingDigits(digits, 0)
        ELSE leadingDigits(digits, 0)

parseLimit(raw) ==
    IF raw = NoText \/ raw = <<>> THEN CRAWL_BATCH_LIMIT
    ELSE LET parsed == parseInt(raw)
         IN  IF parsed = NaN \/ parsed <= 0 THEN CRAWL_BATCH_LIMIT
             ELSE Min(parsed, MAX_CRAWL_BATCH_LIMIT)

clampBatchLimit(value) ==
    IF value = Absent \/ value <= 0 THEN CRAWL_BATCH_LIMIT
    ELSE Min(value, MAX_CRAWL_BATCH_LIMIT)

(* A table with one delay for every status. *)
statusToNextDelayMs_flat(status) ==
    SUCCESS_CRAWL_DELAY_MS

statusToNextDelayMs(status) ==
    IF status = "blocked" THEN BLOCKED_BACKOFF_MS
    ELSE IF status = "manual_needed" THEN MANUAL_NEEDED_BACKOFF_MS
    ELSE IF status = "error" THEN ERROR_BACKOFF_MS
    ELSE SUCCESS_CRAWL_DELAY_MS

(* value.length, for the messages of the model. *)
MessageLength(value) ==
    CASE value = "" -> 0
      [] value = "thrown" -> 6
      [] value = "thrown (450 characters)" -> 450
      [] value = "thrown (first 397 characters)..." -> 400
      [] OTHER -> 50

(* A truncation that lets every message through. *)
truncateError_whole(value) == value

truncateError(value) ==
    IF MessageLength(value) <= 400 THEN value
    ELSE "thrown (first 397 characters)..."

(* A table with an event for every status that is not ok. *)
auditEventTypeByStatus_idleToo(status) ==
    IF status = "blocked" THEN "crawl_blocked"
    ELSE IF status = "manual_needed" THEN "crawl_manual_needed"
    ELSE IF status = "ok" THEN "none"
    ELSE "crawl_error"

auditEventTypeByStatus(status) ==
    IF status = "blocked" THEN "crawl_blocked"
    ELSE IF status = "manual_needed" THEN "crawl_manual_needed"
    ELSE IF status = "error" THEN "crawl_error"
    ELSE "none"

(***************************************************************************)
(* State.                                                                  *)
(***************************************************************************)
VARIABLES
    clock,          \* wall clock
    advances,       \* number of times the clock has moved
    cronRunLock,    \* CronRunLock collection: key -> record
    companies,      \* Company collection
    users,          \* User collection
    snapshots,      \* Snapshot collection, in insertion order
    diffs,          \* Diff collection, in insertion order
    insights,       \* Insight collection, in insertion order
    auditEvents,    \* AuditEvent collection
    pc,             \* position of each cron request
    job,            \* which entrypoint the request hit
    lockResult,     \* AcquireCronLockResult of the request
    batch,          \* locals of runCrawlBatch
    item,           \* locals of processCompany
    thrown,         \* an exception is propagating to the handler's catch
    response,       \* HTTP response of the request
    api,            \* interactive API requests: position, inputs, loaded document, reply
    fn,             \* one application of a pure function: name, input, output
    digest,         \* locals of handleDigest
    emails,         \* messages handed to the mail provider, in order
    request,        \* what each cron request carried, and the secret configured when it came
    rateLimitCounter,       \* RateLimitCounter document of one key
    writer,                 \* locals and answer of each enforceWriteRateLimit call
    processedStripeEvent,   \* ProcessedStripeEvent document of one eventId
    delivery                \* locals of each webhook delivery of that event

vars == <<clock, advances, cronRunLock, companies, users, snapshots, diffs, insights,
          auditEvents, pc, job, lockResult, batch, item, thrown, response, api, fn,
          digest, emails, request, rateLimitCounter, writer, processedStripeEvent, delivery>>

(* The rate limiter's and the webhook's collections and calls. *)
guards == <<rateLimitCounter, writer, processedStripeEvent, delivery>>

store == <<companies, snapshots, diffs, insights, auditEvents>>

Users == {"u1", "u2", "u3"}
Jobs == {"crawl", "digest"}

NoLockResult == [acquired |-> FALSE, ownerId |-> 0, lockUntil |-> Absent, now |-> Absent,
                 retryAfterSeconds |-> 0]
NoBatch == [startedAt |-> Absent, limit |-> 0, claimedCompanies |-> <<>>, index |-> 1]
NoResponse == [status |-> 0, skipped |-> FALSE, reason |-> "", retryAfterSeconds |-> 0,
               lockUntil |-> Absent]
NoItem ==
    [company |-> 0, now |-> Absent, finalStatus |-> "error",
     finalErrorMessage |-> "Crawler failed before execution",
     latestContentHash |-> NoHash, latestConfidence |-> Absent,
     discoveredPrimaryPricingUrl |-> NoUrl, attemptedDiscovery |-> FALSE,
     changed |-> FALSE, snapshotCreated |-> FALSE, diffCreated |-> FALSE,
     insightCreated |-> FALSE, skippedByHash |-> FALSE,
     user |-> "", fetchedPage |-> NoHash, extraction |-> NoExtraction,
     previousSnapshot |-> 0, currentSnapshot |-> 0]

(* A key without a counter document, a caller that has not called yet. *)
NoCounter == [missing |-> TRUE]
NoWriter == [pc |-> "idle", now |-> Absent, allowed |-> FALSE, remaining |-> 0,
             retryAfterSeconds |-> 0, window |-> Absent]

(* An event without a ledger record, a delivery that has not arrived yet. *)
NoEvent == [missing |-> TRUE]
NoDelivery == [pc |-> "idle", now |-> Absent, existing |-> NoEvent, action |-> "none",
               reason |-> "", attempt |-> 0, lockExpiresAt |-> Absent]

Writers == 1..NumWriters
Deliveries == 1..NumDeliveries

InitGuards ==
    /\ rateLimitCounter = NoCounter
    /\ writer = [k \in Writers |-> NoWriter]
    /\ processedStripeEvent = NoEvent
    /\ delivery = [d \in Deliveries |-> NoDelivery]

Api == 1..NumApi
NoDoc == [missing |-> TRUE]
NoCall ==
    [pc |-> "idle", route |-> "", user |-> "", company |-> 0, url |-> NoUrl, type |-> "",
     domain |-> "", now |-> Absent, doc |-> NoDoc, status |-> 0, reason |-> ""]

NoHeader == "null"
NoAuthorization == [scheme |-> "", token |-> ""]
NoRequest ==
    [cronSecret |-> "", xCronSecret |-> NoHeader, authorization |-> NoAuthorization,
     limit |-> NoText]

NoDigest == [now |-> Absent, users |-> <<>>, index |-> 1]

NoFn == [name |-> "", input |-> NoDoc, output |-> NoDoc, done |-> FALSE]

InitCompany(c) ==
    [userId |-> IF c % 2 = 1 THEN "u1" ELSE "u2", type |-> "competitor",
     domain |-> "c.example", homepageUrl |-> "https://c.example",
     primaryPricingUrl |-> IF c % 2 = 1 THEN "https://c.example/pricing" ELSE NoUrl,
     nextCrawlAt |-> 0, crawlLeaseUntil |-> Absent, lastCrawlAt |-> Absent,
     lastCrawlStatus |-> "idle", lastCrawlError |-> "", latestContentHash |-> NoHash,
     latestConfidence |-> Absent, updatedAt |-> 0]

(* Length of the trial (7 days). *)
TRIAL_MS == 10080

(* u1 pays for the pro plan; u2 is on a trial that ends shortly after the *)
(* first re-crawl of its competitor is due; u3 has signed up and no more. *)
TrialEnd == SUCCESS_CRAWL_DELAY_MS + 7

InitUser(u) ==
    IF u = "u1"
    THEN [hasAccess |-> TRUE, priceId |-> "price_pro", trialStatus |-> "not_started",
          trialStartedAt |-> Absent, trialEndsAt |-> Absent,
          email |-> "u1@example", lastDigestSentAt |-> Absent]
    ELSE IF u = "u2"
    THEN [hasAccess |-> FALSE, priceId |-> "", trialStatus |-> "active",
          trialStartedAt |-> TrialEnd - TRIAL_MS, trialEndsAt |-> TrialEnd,
          email |-> "u2@example", lastDigestSentAt |-> Absent]
    ELSE [hasAccess |-> FALSE, priceId |-> "", trialStatus |-> "not_started",
          trialStartedAt |-> Absent, trialEndsAt |-> Absent,
          email |-> "", lastDigestSentAt |-> Absent]

Init ==
    /\ clock = 0
    /\ advances = 0
    /\ cronRunLock = [k \in LockKeys |-> NoRecord]
    /\ companies = [c \in Comp |-> InitCompany(c)]
    /\ users = [u \in Users |-> InitUser(u)]
    /\ snapshots = <<>>
    /\ diffs = <<>>
    /\ insights = <<>>
    /\ auditEvents = {}
    /\ pc = [i \in Inv |-> "idle"]
    /\ job = [i \in Inv |-> "crawl"]
    /\ lockResult = [i \in Inv |-> NoLockResult]
    /\ batch = [i \in Inv |-> NoBatch]
    /\ item = [i \in Inv |-> NoItem]
    /\ thrown = [i \in Inv |-> FALSE]
    /\ response = [i \in Inv |-> NoResponse]
    /\ api = [r \in Api |-> NoCall]
    /\ fn = NoFn
    /\ digest = [i \in Inv |-> NoDigest]
    /\ emails = <<>>
    /\ request = [i \in Inv |-> NoRequest]
    /\ InitGuards

(***************************************************************************)
(* Environment of a run: what the crawled sites answer, which requests     *)
(* arrive, and at which awaits the store may fail.                         *)
(***************************************************************************)
(* The secret of the deployment: process.env.CRON_SECRET. *)
CRON_SECRET == "secret"

Request(cronSecret, xCronSecret, authorization) ==
    [cronSecret |-> cronSecret, xCronSecret |-> xCronSecret, authorization |-> authorization,
     limit |-> NoText]

FaultPoints == {"connect", "lock", "claim", "user", "snapshot", "diff", "insight", "finalize", "digest"}

MayFail(env, point) == IF point \in env.faults THEN BOOLEAN ELSE {FALSE}

(* The message of an error thrown by the store or a library: a short one,  *)
(* or, where the environment has verbose errors, one of 450 characters.    *)
LongMessage == "thrown (450 characters)"

ThrownMessages(env) == IF "verbose" \in env.faults THEN {"thrown", LongMessage} ELSE {"thrown"}

PageOf(hash) == CHOOSE pg \in Pages : pg.contentHash = hash

FetchOf(hashes, statuses) ==
    {f \in FetchResults : (f.ok /\ f.page.contentHash \in hashes) \/ (~f.ok /\ f.status \in statuses)}

(* Requests may overlap; sites answer with one page or refuse. *)
SchedulerEnv ==
    [fetches |-> FetchOf({"hA"}, {403}),
     discoveries |-> {"recommended", "none"},
     faults |-> {"claim", "user", "finalize", "digest"},
     rawLimits |-> {NoText, <<"1">>},
     requests |-> {Request(CRON_SECRET, "secret", NoAuthorization), Request(CRON_SECRET, "wrong", NoAuthorization)},
     jobs |-> Jobs]

(* One cron tick at a time; the sites change their pages between crawls. *)
PipelineEnv ==
    [fetches |-> FetchOf({"hA", "hB", "hC", "hD", "hH", "hI"}, {}),
     discoveries |-> {"recommended"},
     faults |-> {},
     rawLimits |-> {NoText},
     requests |-> {Request(CRON_SECRET, "secret", NoAuthorization)},
     jobs |-> {"crawl"}]

(* One cron tick at a time; the sites time out, refuse or break. *)
FailureEnv ==
    [fetches |-> FetchOf({"hA"}, {408, 403, 500}),
     discoveries |-> {"recommended", "none"},
     faults |-> {},
     rawLimits |-> {NoText},
     requests |-> {Request(CRON_SECRET, "secret", NoAuthorization)},
     jobs |-> {"crawl"}]

(* One cron tick at a time, on sites that answer; the write that finalizes *)
(* an item may fail, which leaves the lease of the item in place.          *)
InteractiveEnv ==
    [fetches |-> FetchOf({"hA"}, {}),
     discoveries |-> {"recommended"},
     faults |-> {"finalize"},
     rawLimits |-> {NoText},
     requests |-> {Request(CRON_SECRET, "secret", NoAuthorization)},
     jobs |-> {"crawl"}]

(***************************************************************************)
(* Time.                                                                   *)
(***************************************************************************)
(* The instants at which a timer of the store runs out. *)
Deadlines ==
    {cronRunLock[k].lockUntil : k \in LockKeys}
    \cup {companies[c].crawlLeaseUntil : c \in Comp}
    \cup {companies[c].nextCrawlAt : c \in Comp}
    \cup {users[u].trialEndsAt : u \in Users}

(* The clock counts minutes.  A store round trip takes milliseconds and a   *)
(* page fetch is cut after FETCH_TIMEOUT_MS (15 s), so one item stays below *)
(* the clock's resolution; the minutes pass between cron ticks and over the *)
(* items of a batch, which nothing in runCrawlBatch bounds, and over the    *)
(* users of a digest, each of which waits for the mail provider.            *)
WaitingPositions == {"idle", "responded", "process", "digest_user", "crashed"}

(* Every position of a cron request. *)
Positions ==
    {"idle", "acquire_create", "acquire_find", "run", "claim", "process", "snapshot_find",
     "snapshot_create", "finalize", "digest_user", "digest_mark", "release", "responded",
     "crashed"}

(* Time passes until the next pending deadline, the cron requests being at *)
(* positions where they may wait.                                          *)
TimePasses(waiting) ==
    /\ advances < MaxAdvances
    /\ \A i \in Inv : pc[i] \in waiting
    /\ \A r \in Api : api[r].pc \in {"idle", "responded"}
    /\ \E t \in Deadlines :
        /\ t > clock
        /\ \A o \in Deadlines : o > clock => t <= o
        /\ clock' = t
    /\ advances' = advances + 1
    /\ UNCHANGED <<request, api, fn, guards, digest, emails, cronRunLock, companies, users, snapshots, diffs, insights, auditEvents,
                   pc, job, lockResult, batch, item, thrown, response>>

Advance == TimePasses(WaitingPositions)

(***************************************************************************)
(* Cron authentication and the invocation lock.                            *)
(***************************************************************************)
(* An Authorization header, split at the blank: scheme and token; *)
(* NoAuthorization stands for a request without the header.       *)
Bearer(token) == [scheme |-> "Bearer", token |-> token]

schemeToLowerCase(scheme) ==
    IF scheme = "Bearer" THEN "bearer" ELSE IF scheme = "Basic" THEN "basic" ELSE scheme

getBearerToken(authorizationHeader) ==
    IF authorizationHeader = NoAuthorization THEN NoHeader
    ELSE IF schemeToLowerCase(authorizationHeader.scheme) # "bearer" \/ authorizationHeader.token = ""
    THEN NoHeader
    ELSE authorizationHeader.token

(* A check that lets every request through when no secret is configured. *)
isCronAuthorized_openWithoutSecret(req) ==
    IF req.cronSecret = "" THEN TRUE
    ELSE \/ req.xCronSecret = req.cronSecret
         \/ getBearerToken(req.authorization) = req.cronSecret

isCronAuthorized(req) ==
    IF req.cronSecret = "" THEN FALSE
    ELSE \/ req.xCronSecret = req.cronSecret
         \/ getBearerToken(req.authorization) = req.cronSecret

LockKey(i) == IF job[i] = "crawl" THEN CRAWL_CRON_LOCK_KEY ELSE DIGEST_CRON_LOCK_KEY
LockTtl(i) == IF job[i] = "crawl" THEN CRAWL_CRON_LOCK_TTL_MS ELSE DIGEST_CRON_LOCK_TTL_MS

Respond(i, status) == response' = [response EXCEPT ![i] = [NoResponse EXCEPT !.status = status]]

(* A filter without the branch for a lockUntil that has passed. *)
LockIsFree_withoutExpiry(record, now) == record # NoRecord /\ record.lockUntil = Absent

(* A filter that matches the record whatever its lockUntil. *)
LockIsFree_ignoresExpiry(record, now) == record # NoRecord

(* findOneAndUpdate of acquireCronLock: matches a record whose lockUntil <= now. *)
LockIsFree(record, now) == record # NoRecord /\ record.lockUntil <= now

NewLock(i, now, ttl, previous) ==
    [ownerId |-> i, lockUntil |-> now + ttl, lockedAt |-> now,
     lastReleasedAt |-> previous.lastReleasedAt]

Acquired(i, now, ttl) ==
    [acquired |-> TRUE, ownerId |-> i, lockUntil |-> now + ttl, now |-> now, retryAfterSeconds |-> 0]

(* handle: requireCronAuth, connectMongo, then the first await of acquireCronLock. *)
Start(i, env) ==
    /\ pc[i] = "idle"
    /\ \A earlier \in 1..(i - 1) : pc[earlier] # "idle"
    /\ \E j \in env.jobs, req \in env.requests, raw \in env.rawLimits,
          fault \in MayFail(env, "connect") :
        LET key == IF j = "crawl" THEN CRAWL_CRON_LOCK_KEY ELSE DIGEST_CRON_LOCK_KEY
            ttl == IF j = "crawl" THEN CRAWL_CRON_LOCK_TTL_MS ELSE DIGEST_CRON_LOCK_TTL_MS
            now == clock
        IN  /\ job' = [job EXCEPT ![i] = j]
            /\ request' = [request EXCEPT ![i] =
                   [req EXCEPT !.limit = IF j = "crawl" THEN raw ELSE NoText]]
            /\ IF ~isCronAuthorized(req)
               THEN /\ pc' = [pc EXCEPT ![i] = "responded"]
                    /\ Respond(i, 401)
                    /\ UNCHANGED <<cronRunLock, lockResult>>
               ELSE IF fault
               THEN /\ pc' = [pc EXCEPT ![i] = "responded"]
                    /\ Respond(i, 500)
                    /\ UNCHANGED <<cronRunLock, lockResult>>
               ELSE IF LockIsFree(cronRunLock[key], now)
               THEN /\ cronRunLock' = [cronRunLock EXCEPT ![key] = NewLock(i, now, ttl, @)]
                    /\ lockResult' = [lockResult EXCEPT ![i] = Acquired(i, now, ttl)]
                    /\ pc' = [pc EXCEPT ![i] = "run"]
                    /\ UNCHANGED response
               ELSE /\ lockResult' = [lockResult EXCEPT ![i] = [NoLockResult EXCEPT !.now = now]]
                    /\ pc' = [pc EXCEPT ![i] = "acquire_create"]
                    /\ UNCHANGED <<cronRunLock, response>>
    /\ UNCHANGED <<api, fn, guards, digest, emails, clock, advances, companies, users, snapshots, diffs, insights, auditEvents,
                   batch, item, thrown>>

(* CronRunLock.create: the unique index on key rejects a second record. *)
AcquireCreate(i, env) ==
    /\ pc[i] = "acquire_create"
    /\ \E fault \in MayFail(env, "lock") :
        LET key == LockKey(i)
            now == lockResult[i].now
        IN  IF fault
            THEN /\ pc' = [pc EXCEPT ![i] = "responded"]
                 /\ Respond(i, 500)
                 /\ UNCHANGED <<cronRunLock, lockResult>>
            ELSE IF cronRunLock[key] = NoRecord
            THEN /\ cronRunLock' = [cronRunLock EXCEPT ![key] = NewLock(i, now, LockTtl(i), @)]
                 /\ lockResult' = [lockResult EXCEPT ![i] = Acquired(i, now, LockTtl(i))]
                 /\ pc' = [pc EXCEPT ![i] = "run"]
                 /\ UNCHANGED response
            ELSE /\ pc' = [pc EXCEPT ![i] = "acquire_find"]
                 /\ UNCHANGED <<cronRunLock, lockResult, response>>
    /\ UNCHANGED <<request, api, fn, guards, digest, emails, clock, advances, companies, users, snapshots, diffs, insights, auditEvents,
                   job, batch, item, thrown>>

(* A handler that does not test lock.acquired and runs the job regardless. *)
AcquireFind_runsRegardless(i) ==
    /\ pc[i] = "acquire_find"
    /\ LET existingLock == cronRunLock[LockKey(i)]
           now == lockResult[i].now
           retryAfterMs == Max(existingLock.lockUntil - now, 0)
       IN  lockResult' = [lockResult EXCEPT ![i] =
                [acquired |-> FALSE, ownerId |-> existingLock.ownerId,
                 lockUntil |-> existingLock.lockUntil, now |-> now,
                 retryAfterSeconds |-> retryAfterMs * 60]]
    /\ pc' = [pc EXCEPT ![i] = "run"]
    /\ UNCHANGED <<request, api, fn, guards, digest, emails, clock, advances, cronRunLock, companies, users, snapshots, diffs, insights,
                   auditEvents, job, batch, item, thrown, response>>

(* CronRunLock.findOne after the duplicate-key error, and the 202 reply. *)
AcquireFind(i) ==
    /\ pc[i] = "acquire_find"
    /\ LET existingLock == cronRunLock[LockKey(i)]
           now == lockResult[i].now
       IN  IF existingLock = NoRecord
           THEN /\ lockResult' = [lockResult EXCEPT ![i] = Acquired(i, now, LockTtl(i))]
                /\ pc' = [pc EXCEPT ![i] = "run"]
                /\ UNCHANGED response
           ELSE LET retryAfterMs == Max(existingLock.lockUntil - now, 0)
                IN  /\ lockResult' = [lockResult EXCEPT ![i] =
                           [acquired |-> FALSE, ownerId |-> existingLock.ownerId,
                            lockUntil |-> existingLock.lockUntil, now |-> now,
                            retryAfterSeconds |-> retryAfterMs * 60]]
                    /\ pc' = [pc EXCEPT ![i] = "responded"]
                    /\ response' = [response EXCEPT ![i] =
                           [status |-> 202, skipped |-> TRUE, reason |-> "lock_active",
                            retryAfterSeconds |-> retryAfterMs * 60,
                            lockUntil |-> existingLock.lockUntil]]
    /\ UNCHANGED <<request, api, fn, guards, digest, emails, clock, advances, cronRunLock, companies, users, snapshots, diffs, insights,
                   auditEvents, job, batch, item, thrown>>

(* A release whose filter is the key alone. *)
releaseCronLock_unfenced(locks, key, ownerId, now) ==
    IF locks[key] # NoRecord
    THEN [locks EXCEPT ![key].lockUntil = now, ![key].lastReleasedAt = now]
    ELSE locks

(* updateOne({ key, ownerId }, { $set: { lockUntil: now, lastReleasedAt: now } }) *)
releaseCronLock(locks, key, ownerId, now) ==
    IF locks[key] # NoRecord /\ locks[key].ownerId = ownerId
    THEN [locks EXCEPT ![key].lockUntil = now, ![key].lastReleasedAt = now]
    ELSE locks

(* A handler that releases after the try block instead of in a finally. *)
Release_skippedOnThrow(i) ==
    /\ pc[i] = "release"
    /\ cronRunLock' = IF thrown[i] THEN cronRunLock
                      ELSE releaseCronLock(cronRunLock, LockKey(i), lockResult[i].ownerId, clock)
    /\ pc' = [pc EXCEPT ![i] = "responded"]
    /\ Respond(i, IF thrown[i] THEN 500 ELSE 200)
    /\ UNCHANGED <<request, api, fn, guards, digest, emails, clock, advances, companies, users, snapshots, diffs, insights, auditEvents,
                   job, lockResult, batch, item, thrown>>

(* The handler's finally block, then the 200 or 500 reply. *)
Release(i) ==
    /\ pc[i] = "release"
    /\ cronRunLock' = releaseCronLock(cronRunLock, LockKey(i), lockResult[i].ownerId, clock)
    /\ pc' = [pc EXCEPT ![i] = "responded"]
    /\ Respond(i, IF thrown[i] THEN 500 ELSE 200)
    /\ UNCHANGED <<request, api, fn, guards, digest, emails, clock, advances, companies, users, snapshots, diffs, insights, auditEvents,
                   job, lockResult, batch, item, thrown>>

(* The process of a request that holds the lock dies: nothing of the *)
(* handler runs any more, its finally block included.                *)
Crash(i) ==
    /\ pc[i] \in {"run", "release"}
    /\ lockResult[i].acquired
    /\ \A other \in Inv : pc[other] # "crashed"
    /\ advances < MaxAdvances
    /\ pc' = [pc EXCEPT ![i] = "crashed"]
    /\ UNCHANGED <<request, api, fn, guards, digest, emails, clock, advances, cronRunLock, companies, users,
                   snapshots, diffs, insights, auditEvents, job, lockResult, batch, item, thrown,
                   response>>

(* The scheduler calls again: a request that was answered makes room for the next. *)
NextInvocation(i) ==
    /\ pc[i] = "responded"
    /\ pc' = [pc EXCEPT ![i] = "idle"]
    /\ lockResult' = [lockResult EXCEPT ![i] = NoLockResult]
    /\ thrown' = [thrown EXCEPT ![i] = FALSE]
    /\ response' = [response EXCEPT ![i] = NoResponse]
    /\ request' = [request EXCEPT ![i] = NoRequest]
    /\ batch' = [batch EXCEPT ![i] = NoBatch]
    /\ item' = [item EXCEPT ![i] = NoItem]
    /\ digest' = [digest EXCEPT ![i] = NoDigest]
    /\ UNCHANGED <<api, fn, guards, emails, clock, advances, cronRunLock, companies, users,
                   snapshots, diffs, insights, auditEvents, job>>

(* handleDigest, seen from the handler: it returns a response or throws.  *)
(* Where no verified diff is stored the digest mails nobody and writes    *)
(* nothing, and this one step is all of it.                               *)
RunDigest(i, env) ==
    /\ pc[i] = "run"
    /\ job[i] = "digest"
    /\ \E fault \in MayFail(env, "digest") : thrown' = [thrown EXCEPT ![i] = fault]
    /\ pc' = [pc EXCEPT ![i] = "release"]
    /\ UNCHANGED <<request, api, fn, guards, digest, emails, clock, advances, cronRunLock, companies, users, snapshots, diffs, insights,
                   auditEvents, job, lockResult, batch, item, response>>

(***************************************************************************)
(* Weekly digest.                                                          *)
(***************************************************************************)
(* DIGEST_LOOKBACK_DAYS (7 days). *)
DIGEST_LOOKBACK_MS == 10080

getLookbackStart(now) == now - DIGEST_LOOKBACK_MS

canReceiveWeeklyDigest(entitlements) ==
    entitlements.hasAccess /\ entitlements.canReceiveWeeklyDigest

(* A user document whose email is null or missing. *)
NoEmail == "null"

(* The order in which User.find returns the documents. *)
UserOrder == <<"u1", "u2", "u3">>

(* User.find({ email: { $exists: true, $ne: null } }).lean(): copies of the documents. *)
DigestEligibleUsers ==
    LET found == SelectSeq(UserOrder, LAMBDA u : users[u].email # NoEmail)
    IN  [k \in 1..Len(found) |-> [id |-> found[k], doc |-> users[found[k]]]]

(* Diff.find({ userId, verificationState: "verified", detectedAt in [lookbackStart, now] }) *)
verifiedDiffs(userId, lookbackStart, now) ==
    {k \in DOMAIN diffs : /\ diffs[k].userId = userId
                          /\ diffs[k].verificationState = "verified"
                          /\ diffs[k].detectedAt >= lookbackStart
                          /\ diffs[k].detectedAt <= now}

(* The three skips of the loop that come before a message is built. *)
DigestSkips(user, now) ==
    \/ user.doc.email = ""
    \/ ~canReceiveWeeklyDigest(resolveEntitlements(user.doc, now))
    \/ /\ user.doc.lastDigestSentAt # Absent
       /\ user.doc.lastDigestSentAt >= getLookbackStart(now)
    \/ verifiedDiffs(user.id, getLookbackStart(now), now) = {}

(* handleDigest up to the loop: now, connectMongo and User.find. *)
DigestBegin(i, env) ==
    /\ pc[i] = "run"
    /\ job[i] = "digest"
    /\ \E fault \in MayFail(env, "digest") :
        IF fault
        THEN /\ thrown' = [thrown EXCEPT ![i] = TRUE]
             /\ pc' = [pc EXCEPT ![i] = "release"]
             /\ UNCHANGED digest
        ELSE /\ digest' = [digest EXCEPT ![i] =
                    [now |-> clock, users |-> DigestEligibleUsers, index |-> 1]]
             /\ pc' = [pc EXCEPT ![i] = "digest_user"]
             /\ UNCHANGED thrown
    /\ UNCHANGED <<request, api, fn, guards, emails, clock, advances, cronRunLock, companies, users, snapshots,
                   diffs, insights, auditEvents, job, lockResult, batch, item, response>>

(* One pass of the loop up to sendDigestEmail, which reports a failure *)
(* of the provider in its result; after the last user, the response.   *)
DigestUser(i, env) ==
    /\ pc[i] = "digest_user"
    /\ LET d == digest[i]
           next == [digest EXCEPT ![i].index = @ + 1]
       IN  IF d.index > Len(d.users)
           THEN /\ pc' = [pc EXCEPT ![i] = "release"]
                /\ UNCHANGED <<digest, emails>>
           ELSE LET user == d.users[d.index]
                IN  IF DigestSkips(user, d.now)
                    THEN /\ digest' = next
                         /\ UNCHANGED <<pc, emails>>
                    ELSE \E ok \in env.sends :
                         IF ~ok
                         THEN /\ digest' = next
                              /\ UNCHANGED <<pc, emails>>
                         ELSE /\ emails' = Append(emails,
                                     [to |-> user.doc.email, userId |-> user.id,
                                      now |-> d.now, sentAt |-> clock, by |-> i])
                              /\ pc' = [pc EXCEPT ![i] = "digest_mark"]
                              /\ UNCHANGED digest
    /\ UNCHANGED <<request, api, fn, guards, clock, advances, cronRunLock, companies, users, snapshots,
                   diffs, insights, auditEvents, job, lockResult, batch, item, thrown, response>>

(* User.updateOne({ _id }, { $set: { lastDigestSentAt: now } }) after a send that succeeded. *)
DigestMark(i, env) ==
    /\ pc[i] = "digest_mark"
    /\ LET d == digest[i]
           user == d.users[d.index]
       IN  \E fault \in MayFail(env, "digest") :
           IF fault
           THEN /\ thrown' = [thrown EXCEPT ![i] = TRUE]
                /\ pc' = [pc EXCEPT ![i] = "release"]
                /\ UNCHANGED <<users, digest>>
           ELSE /\ users' = [users EXCEPT ![user.id].lastDigestSentAt = d.now]
                /\ digest' = [digest EXCEPT ![i].index = @ + 1]
                /\ pc' = [pc EXCEPT ![i] = "digest_user"]
                /\ UNCHANGED thrown
    /\ UNCHANGED <<request, api, fn, guards, emails, clock, advances, cronRunLock, companies, snapshots,
                   diffs, insights, auditEvents, job, lockResult, batch, item, response>>


(***************************************************************************)
(* Lease claimer.                                                          *)
(***************************************************************************)
(* A claimer that forgets the lease arm of the filter. *)
leaseFilter_ignoresLease(company, now) ==
    /\ company.type = "competitor"
    /\ (company.nextCrawlAt = Absent \/ company.nextCrawlAt <= now)

leaseFilter(company, now) ==
    /\ company.type = "competitor"
    /\ (company.nextCrawlAt = Absent \/ company.nextCrawlAt <= now)
    /\ (company.crawlLeaseUntil = Absent \/ company.crawlLeaseUntil <= now)

(* A sort that takes the latest nextCrawlAt first. *)
SortsBefore_latestFirst(a, b) ==
    \/ a.nextCrawlAt > b.nextCrawlAt
    \/ (a.nextCrawlAt = b.nextCrawlAt /\ a.updatedAt < b.updatedAt)

(* sort: { nextCrawlAt: 1, updatedAt: 1 }; a missing nextCrawlAt sorts first. *)
SortsBefore(a, b) ==
    \/ a.nextCrawlAt < b.nextCrawlAt
    \/ (a.nextCrawlAt = b.nextCrawlAt /\ a.updatedAt < b.updatedAt)

FirstDue(now) ==
    {c \in Comp : /\ leaseFilter(companies[c], now)
                  /\ \A o \in Comp : leaseFilter(companies[o], now)
                                        => ~SortsBefore(companies[o], companies[c])}

(* A loop that runs until nothing is due. *)
ClaimLoopDone_never(claimed, limit) == FALSE

(* for (let index = 0; index < limit; index += 1): the loop has run limit times. *)
ClaimLoopDone(claimed, limit) == Len(claimed) >= limit

ClaimedCompany(c, doc) ==
    [id |-> c, userId |-> doc.userId, homepageUrl |-> doc.homepageUrl,
     primaryPricingUrl |-> doc.primaryPricingUrl, latestContentHash |-> doc.latestContentHash]

(* runCrawlBatch up to the first claim: connectMongo, startedAtDate, limit. *)
BatchStart(i, env) ==
    /\ pc[i] = "run"
    /\ job[i] = "crawl"
    /\ \E fault \in MayFail(env, "connect") :
        IF fault
        THEN /\ thrown' = [thrown EXCEPT ![i] = TRUE]
             /\ pc' = [pc EXCEPT ![i] = "release"]
             /\ UNCHANGED batch
        ELSE /\ batch' = [batch EXCEPT ![i] =
                    [NoBatch EXCEPT !.startedAt = clock,
                                    !.limit = clampBatchLimit(parseLimit(request[i].limit))]]
             /\ pc' = [pc EXCEPT ![i] = "claim"]
             /\ UNCHANGED thrown
    /\ UNCHANGED <<request, api, fn, guards, digest, emails, clock, advances, cronRunLock, companies, users, snapshots, diffs, insights,
                   auditEvents, job, lockResult, item, response>>

(* One iteration of the loop of claimCompanies, and the exit from the loop. *)
Claim(i, env) ==
    /\ pc[i] = "claim"
    /\ \E fault \in MayFail(env, "claim") :
        LET now == batch[i].startedAt
            leaseUntil == now + CRAWL_LEASE_MS
            due == FirstDue(now)
        IN  IF fault
            THEN /\ thrown' = [thrown EXCEPT ![i] = TRUE]
                 /\ pc' = [pc EXCEPT ![i] = "release"]
                 /\ UNCHANGED <<companies, batch>>
            ELSE IF due = {}
            THEN /\ pc' = [pc EXCEPT ![i] =
                        IF batch[i].claimedCompanies = <<>> THEN "release" ELSE "process"]
                 /\ batch' = [batch EXCEPT ![i].index = 1]
                 /\ UNCHANGED <<companies, thrown>>
            ELSE \E c \in due :
                 LET doc == [companies[c] EXCEPT !.crawlLeaseUntil = leaseUntil, !.updatedAt = clock]
                     claimed == Append(batch[i].claimedCompanies, ClaimedCompany(c, doc))
                 IN  /\ companies' = [companies EXCEPT ![c] = doc]
                     /\ batch' = [batch EXCEPT ![i].claimedCompanies = claimed, ![i].index = 1]
                     /\ pc' = [pc EXCEPT ![i] =
                            IF ClaimLoopDone(claimed, batch[i].limit) THEN "process" ELSE "claim"]
                     /\ UNCHANGED thrown
    /\ UNCHANGED <<request, api, fn, guards, digest, emails, clock, advances, cronRunLock, users, snapshots, diffs, insights, auditEvents,
                   job, lockResult, item, response>>

(***************************************************************************)
(* processCompany.                                                         *)
(***************************************************************************)
CurrentCompany(i) == batch[i].claimedCompanies[batch[i].index]

(* if (company.latestContentHash && company.latestContentHash === extraction.contentHash) *)
hashUnchanged(company, extraction) ==
    /\ company.latestContentHash # NoHash
    /\ company.latestContentHash = extraction.contentHash

Failed(i, it, status, message) ==
    /\ item' = [item EXCEPT ![i] = [it EXCEPT !.finalStatus = status, !.finalErrorMessage = message]]
    /\ pc' = [pc EXCEPT ![i] = "finalize"]

(* From the entry of processCompany to the hash gate. *)
ProcessBegin(i, env) ==
    /\ pc[i] = "process"
    /\ \E discovery \in env.discoveries, fetched \in env.fetches, fault \in MayFail(env, "user"),
          message \in ThrownMessages(env) :
        LET company == CurrentCompany(i)
            now == clock
            needsDiscovery == company.primaryPricingUrl = NoUrl /\ company.homepageUrl # NoUrl
            discovered == IF needsDiscovery /\ discovery = "recommended"
                          THEN "https://c.example/plans" ELSE NoUrl
            sourceUrl == IF company.primaryPricingUrl # NoUrl THEN company.primaryPricingUrl
                         ELSE discovered
            begun == [NoItem EXCEPT !.company = company.id, !.now = now,
                                    !.attemptedDiscovery = needsDiscovery]
            resolved == [begun EXCEPT !.discoveredPrimaryPricingUrl = discovered]
            user == users[company.userId]
            extraction == fetchAndExtractPricing(sourceUrl, fetched)
            fetching == [resolved EXCEPT !.fetchedPage = fetched.page.contentHash]
            extracted == [fetching EXCEPT !.user = company.userId, !.extraction = extraction,
                                          !.latestContentHash = extraction.contentHash,
                                          !.latestConfidence = extraction.confidence]
        IN  IF needsDiscovery /\ discovery = "throws"
            THEN Failed(i, begun, "error", message)
            ELSE IF sourceUrl = NoUrl
            THEN Failed(i, resolved, "manual_needed", "No crawl URL is available")
            ELSE IF fault
            THEN Failed(i, resolved, "error", message)
            ELSE IF ~resolveEntitlements(user, now).hasAccess
            THEN Failed(i, resolved, "idle", "User is not eligible for competitor crawling")
            ELSE IF extraction.status # "ok"
            THEN Failed(i, fetching, extraction.status, extraction.error)
            ELSE IF hashUnchanged(company, extraction)
            THEN /\ item' = [item EXCEPT ![i] = [extracted EXCEPT !.finalStatus = "ok",
                                                                 !.finalErrorMessage = "",
                                                                 !.skippedByHash = TRUE]]
                 /\ pc' = [pc EXCEPT ![i] = "finalize"]
            ELSE /\ item' = [item EXCEPT ![i] = extracted]
                 /\ pc' = [pc EXCEPT ![i] = "snapshot_find"]
    /\ UNCHANGED <<request, api, fn, guards, digest, emails, clock, advances, cronRunLock, companies, users, snapshots, diffs, insights,
                   auditEvents, job, lockResult, batch, thrown, response>>

(* SnapshotModel.findOne({ companyId }).sort({ capturedAt: -1 }). *)
LatestSnapshots(c) ==
    {k \in 1..Len(snapshots) :
        /\ snapshots[k].companyId = c
        /\ \A o \in 1..Len(snapshots) :
              snapshots[o].companyId = c => snapshots[o].capturedAt <= snapshots[k].capturedAt}

ProcessSnapshotFind(i, env) ==
    /\ pc[i] = "snapshot_find"
    /\ \E fault \in MayFail(env, "snapshot"), message \in ThrownMessages(env) :
        IF fault
        THEN Failed(i, item[i], "error", message)
        ELSE /\ \E previous \in (IF LatestSnapshots(item[i].company) = {} THEN {0}
                                 ELSE LatestSnapshots(item[i].company)) :
                    item' = [item EXCEPT ![i].previousSnapshot = previous]
             /\ pc' = [pc EXCEPT ![i] = "snapshot_create"]
    /\ UNCHANGED <<request, api, fn, guards, digest, emails, clock, advances, cronRunLock, companies, users, snapshots, diffs, insights,
                   auditEvents, job, lockResult, batch, thrown, response>>

(* A comparison that takes a missing previous snapshot as an empty one. *)
DiffOf_againstEmpty(it) ==
    generatePricingDiff(IF it.previousSnapshot = 0 THEN EmptyPayload
                        ELSE toNormalizedPayload(snapshots[it.previousSnapshot].pricingPayload),
                        it.extraction.pricingPayload, it.extraction.isVerified)

DiffOf(it) ==
    IF it.previousSnapshot = 0 THEN NoDiff
    ELSE generatePricingDiff(toNormalizedPayload(snapshots[it.previousSnapshot].pricingPayload),
                             it.extraction.pricingPayload, it.extraction.isVerified)

(* SnapshotModel.create, Diff.create, buildInsightFromDiff and Insight.create: *)
(* the writes of one item, each of which may throw into the catch block.      *)
ProcessWrite(i, env) ==
    /\ pc[i] = "snapshot_create"
    /\ \E outcome \in {"ok"} \cup (env.faults \cap {"snapshot", "diff", "insight"}),
          message \in ThrownMessages(env) :
        LET it == item[i]
            diff == DiffOf(it)
            snapshotRecord == [companyId |-> it.company, userId |-> it.user,
                               capturedAt |-> it.now,
                               confidence |-> it.extraction.confidence,
                               contentHash |-> it.extraction.contentHash,
                               pricingPayload |-> it.extraction.pricingPayload,
                               isVerified |-> it.extraction.isVerified, by |-> i]
            diffRecord == [companyId |-> it.company, userId |-> it.user,
                           previousSnapshotId |-> it.previousSnapshot,
                           currentSnapshotId |-> Len(snapshots) + 1,
                           normalizedDiff |-> [priceChanges |-> diff.priceChanges,
                                               addedHints |-> diff.addedHints,
                                               removedHints |-> diff.removedHints],
                           severity |-> diff.severity,
                           verificationState |-> diff.verificationState,
                           detectedAt |-> it.now, by |-> i]
            insight == buildInsightFromDiff(users[it.user], diff.severity, it.now)
            insightRecord == [companyId |-> it.company, userId |-> it.user,
                              diffId |-> Len(diffs) + 1, severity |-> diff.severity,
                              severityGate |-> insight.severityGate,
                              generatedAt |-> it.now, by |-> i]
            created == [it EXCEPT !.snapshotCreated = TRUE, !.changed = TRUE,
                                  !.currentSnapshot = Len(snapshots) + 1]
            withDiff == [created EXCEPT !.diffCreated = TRUE]
            Done(final) == item' = [item EXCEPT ![i] = [final EXCEPT !.finalStatus = "ok",
                                                                     !.finalErrorMessage = ""]]
            Threw(final) == item' = [item EXCEPT ![i] = [final EXCEPT !.finalStatus = "error",
                                                                      !.finalErrorMessage = message]]
        IN  IF outcome = "snapshot"
            THEN /\ Threw(it)
                 /\ UNCHANGED <<snapshots, diffs, insights>>
            ELSE /\ snapshots' = Append(snapshots, snapshotRecord)
                 /\ IF diff = NoDiff
                    THEN /\ Done(created)
                         /\ UNCHANGED <<diffs, insights>>
                    ELSE IF outcome = "diff"
                    THEN /\ Threw(created)
                         /\ UNCHANGED <<diffs, insights>>
                    ELSE /\ diffs' = Append(diffs, diffRecord)
                         /\ IF ~insight.shouldCreate
                            THEN /\ Done(withDiff)
                                 /\ UNCHANGED insights
                            ELSE IF outcome = "insight"
                            THEN /\ Threw(withDiff)
                                 /\ UNCHANGED insights
                            ELSE /\ insights' = Append(insights, insightRecord)
                                 /\ Done([withDiff EXCEPT !.insightCreated = TRUE])
    /\ pc' = [pc EXCEPT ![i] = "finalize"]
    /\ UNCHANGED <<request, api, fn, guards, digest, emails, clock, advances, cronRunLock, companies, users, auditEvents,
                   job, lockResult, batch, thrown, response>>

(* The finally block: Company.updateOne, then the audit event. *)
FinalizePayload(it, company, stored, at) ==
    [stored EXCEPT
        !.crawlLeaseUntil = Absent,
        !.nextCrawlAt = it.now + statusToNextDelayMs(it.finalStatus),
        !.lastCrawlAt = it.now,
        !.lastCrawlStatus = it.finalStatus,
        !.latestContentHash = IF it.latestContentHash # NoHash THEN it.latestContentHash ELSE @,
        !.latestConfidence = IF it.latestConfidence # Absent THEN it.latestConfidence ELSE @,
        !.primaryPricingUrl = IF company.primaryPricingUrl = NoUrl
                                 /\ it.discoveredPrimaryPricingUrl # NoUrl
                              THEN it.discoveredPrimaryPricingUrl ELSE @,
        !.lastCrawlError = truncateError(it.finalErrorMessage),
        !.updatedAt = at]

Finalize(i, env) ==
    /\ pc[i] = "finalize"
    /\ \E fault \in MayFail(env, "finalize") :
        LET it == item[i]
            company == CurrentCompany(i)
            last == batch[i].index >= Len(batch[i].claimedCompanies)
        IN  IF fault
            THEN /\ thrown' = [thrown EXCEPT ![i] = TRUE]
                 /\ pc' = [pc EXCEPT ![i] = "release"]
                 /\ UNCHANGED <<companies, auditEvents, batch, item>>
            ELSE /\ companies' = [companies EXCEPT ![it.company] =
                                    FinalizePayload(it, company, @, clock)]
                 /\ auditEvents' =
                        IF auditEventTypeByStatus(it.finalStatus) = "none" THEN auditEvents
                        ELSE auditEvents \cup
                             {[eventType |-> auditEventTypeByStatus(it.finalStatus),
                               companyId |-> it.company, status |-> it.finalStatus,
                               at |-> it.now, by |-> i]}
                 /\ batch' = [batch EXCEPT ![i].index = @ + 1]
                 /\ pc' = [pc EXCEPT ![i] = IF last THEN "release" ELSE "process"]
                 /\ item' = [item EXCEPT ![i] = NoItem]
                 /\ UNCHANGED thrown
    /\ UNCHANGED <<request, api, fn, guards, digest, emails, clock, advances, cronRunLock, users, snapshots, diffs, insights,
                   job, lockResult, response>>

(***************************************************************************)
(* Interactive company routes: crawl-now, retry-crawl and primary-pricing. *)
(* Each handler loads the company document (Company.findOne), changes the  *)
(* loaded copy and saves it; save writes the fields the handler modified.  *)
(***************************************************************************)
CompanyRoutes == {"crawl-now", "retry-crawl", "primary-pricing"}

SelectableUrls == {"https://c.example/custom", "https://other.example/pricing"}

HostOf(url) == IF url = "https://other.example/pricing" THEN "other.example" ELSE "c.example"

matchesCompanyDomain(url, companyDomain) == HostOf(url) = companyDomain

(* The reply ends the request; its locals are gone. *)
Reply(r, status, reason) ==
    api' = [api EXCEPT ![r] = [NoCall EXCEPT !.pc = "responded", !.route = api[r].route,
                                             !.status = status, !.reason = reason]]

(* One interactive request at a time. *)
ApiSequential(r) == \A other \in Api \ {r} : api[other].pc \in {"idle", "responded"}

(* Company.findOne({ _id: companyId, userId }). *)
CompanyLoad(r, routes) ==
    /\ api[r].pc = "idle"
    /\ \A lower \in 1..(r - 1) : api[lower].pc # "idle"
    /\ \E route \in routes, u \in Users, c \in Comp :
       \E url \in (IF route = "primary-pricing" THEN SelectableUrls ELSE {NoUrl}) :
          LET call == [NoCall EXCEPT !.route = route, !.user = u, !.company = c, !.url = url,
                                     !.now = clock]
          IN  IF companies[c].userId # u
              THEN api' = [api EXCEPT ![r] = [NoCall EXCEPT !.pc = "responded", !.route = route,
                                                            !.status = 404,
                                                            !.reason = "Company not found"]]
              ELSE api' = [api EXCEPT ![r] = [call EXCEPT !.pc = "loaded", !.doc = companies[c]]]
    /\ UNCHANGED <<request, fn, guards, digest, emails, clock, advances, cronRunLock, companies, users, snapshots, diffs, insights,
                   auditEvents, pc, job, lockResult, batch, item, thrown, response>>

(* crawl-now from the lease check to the reply. *)
CrawlNowSave(r) ==
    /\ api[r].pc = "loaded"
    /\ api[r].route = "crawl-now"
    /\ LET company == api[r].doc
           now == api[r].now
           leaseUntil == company.crawlLeaseUntil
           hasLease == leaseUntil # Absent
           leaseIsActive == hasLease /\ leaseUntil > now
           shouldClearLease == hasLease /\ ~leaseIsActive
       IN  IF company.type # "competitor"
           THEN /\ Reply(r, 400, "crawl-now is only available for competitor companies")
                /\ UNCHANGED companies
           ELSE /\ companies' = [companies EXCEPT
                       ![api[r].company].nextCrawlAt = now,
                       ![api[r].company].crawlLeaseUntil = IF shouldClearLease THEN Absent ELSE @,
                       ![api[r].company].updatedAt = clock]
                /\ Reply(r, 200, IF leaseIsActive THEN "active"
                                 ELSE IF hasLease THEN "stale_or_expired" ELSE "none")
    /\ UNCHANGED <<request, fn, guards, digest, emails, clock, advances, cronRunLock, users, snapshots, diffs, insights,
                   auditEvents, pc, job, lockResult, batch, item, thrown, response>>

(* retry-crawl from the lease check to the reply. *)
RetryCrawlSave(r) ==
    /\ api[r].pc = "loaded"
    /\ api[r].route = "retry-crawl"
    /\ LET company == api[r].doc
           now == api[r].now
           leaseUntil == company.crawlLeaseUntil
           hasLease == leaseUntil # Absent
           leaseIsActive == hasLease /\ leaseUntil > now
       IN  IF company.type # "competitor"
           THEN /\ Reply(r, 400, "retry-crawl is only available for competitor companies")
                /\ UNCHANGED companies
           ELSE IF leaseIsActive
           THEN /\ Reply(r, 409, "active")
                /\ UNCHANGED companies
           ELSE /\ companies' = [companies EXCEPT
                       ![api[r].company].lastCrawlError = "",
                       ![api[r].company].lastCrawlStatus = "idle",
                       ![api[r].company].nextCrawlAt = now,
                       ![api[r].company].crawlLeaseUntil = IF hasLease THEN Absent ELSE @,
                       ![api[r].company].updatedAt = clock]
                /\ Reply(r, 200, IF hasLease THEN "stale_or_expired" ELSE "none")
    /\ UNCHANGED <<request, fn, guards, digest, emails, clock, advances, cronRunLock, users, snapshots, diffs, insights,
                   auditEvents, pc, job, lockResult, batch, item, thrown, response>>

(* PATCH primary-pricing from the domain check to the reply. *)
PrimaryPricingSave(r) ==
    /\ api[r].pc = "loaded"
    /\ api[r].route = "primary-pricing"
    /\ IF ~matchesCompanyDomain(api[r].url, api[r].doc.domain)
       THEN /\ Reply(r, 400, "Selected pricing URL domain does not match company domain")
            /\ UNCHANGED companies
       ELSE /\ companies' = [companies EXCEPT
                   ![api[r].company].primaryPricingUrl = api[r].url,
                   ![api[r].company].updatedAt = clock]
            /\ Reply(r, 200, "")
    /\ UNCHANGED <<request, fn, guards, digest, emails, clock, advances, cronRunLock, users, snapshots, diffs, insights,
                   auditEvents, pc, job, lockResult, batch, item, thrown, response>>

(***************************************************************************)
(* Account routes: POST /trial/start and POST /companies.                  *)
(***************************************************************************)
(* The reply of an account route names the user it was for. *)
ReplyTo(r, status, reason) ==
    api' = [api EXCEPT ![r] = [NoCall EXCEPT !.pc = "responded", !.route = api[r].route,
                                             !.user = api[r].user, !.type = api[r].type,
                                             !.domain = api[r].domain,
                                             !.status = status, !.reason = reason]]

(* startTrialForUser: User.findById. *)
TrialLoad(r) ==
    /\ api[r].pc = "idle"
    /\ \A lower \in 1..(r - 1) : api[lower].pc # "idle"
    /\ \E u \in Users :
          api' = [api EXCEPT ![r] = [NoCall EXCEPT !.pc = "loaded", !.route = "trial-start",
                                                   !.user = u, !.now = clock, !.doc = users[u]]]
    /\ UNCHANGED <<request, fn, guards, digest, emails, clock, advances, cronRunLock, companies, users, snapshots, diffs, insights,
                   auditEvents, pc, job, lockResult, batch, item, thrown, response>>

(* startTrialForUser from refreshTrialStatusIfExpired to its result, and the *)
(* status the route derives from it; save writes the modified fields.        *)
TrialSave(r) ==
    /\ api[r].pc = "loaded"
    /\ api[r].route = "trial-start"
    /\ LET u == api[r].user
           now == api[r].now
           user == refreshTrialStatusIfExpired(api[r].doc, now)
           changedByRefresh == user # api[r].doc
           refreshed == IF changedByRefresh THEN [users EXCEPT ![u].trialStatus = user.trialStatus]
                        ELSE users
           hasTrialHistory == user.trialStartedAt # Absent \/ user.trialEndsAt # Absent
       IN  IF user.hasAccess
           THEN /\ users' = refreshed
                /\ ReplyTo(r, 409, IF user.trialStatus = "converted" THEN "already_converted"
                                   ELSE "paid_user")
           ELSE IF user.trialStatus = "converted"
           THEN /\ users' = refreshed
                /\ ReplyTo(r, 409, "already_converted")
           ELSE IF user.trialStatus = "expired"
           THEN /\ users' = refreshed
                /\ ReplyTo(r, 409, "already_expired")
           ELSE IF user.trialStatus = "active" /\ isTrialActive(user, now)
           THEN /\ users' = refreshed
                /\ ReplyTo(r, 409, "already_active")
           ELSE IF hasTrialHistory /\ user.trialStatus = "not_started"
           THEN /\ users' = [users EXCEPT ![u].trialStatus = "expired"]
                /\ ReplyTo(r, 409, "already_expired")
           ELSE /\ users' = [users EXCEPT ![u].trialStartedAt = now,
                                          ![u].trialEndsAt = now + TRIAL_MS,
                                          ![u].trialStatus = "active"]
                /\ ReplyTo(r, 200, "started")
    /\ UNCHANGED <<request, fn, guards, digest, emails, clock, advances, cronRunLock, companies, snapshots, diffs, insights,
                   auditEvents, pc, job, lockResult, batch, item, thrown, response>>

CompanyTypes == {"self", "competitor"}
Domains == {"c.example", "d.example", "e.example"}

(* The ids of the stored companies of a user that match a filter. *)
CompaniesOf(u, types, domains) ==
    {c \in DOMAIN companies : /\ companies[c].userId = u
                              /\ companies[c].type \in types
                              /\ companies[c].domain \in domains}

(* The domains of the stored companies: a filter that names no domain. *)
StoredDomains == {companies[c].domain : c \in DOMAIN companies}

NewCompany(u, type, domain, now) ==
    [userId |-> u, type |-> type, domain |-> domain, homepageUrl |-> NoUrl,
     primaryPricingUrl |-> NoUrl,
     nextCrawlAt |-> IF type = "competitor" THEN now ELSE Absent,
     crawlLeaseUntil |-> Absent, lastCrawlAt |-> Absent, lastCrawlStatus |-> "idle",
     lastCrawlError |-> "", latestContentHash |-> NoHash, latestConfidence |-> Absent,
     updatedAt |-> now]

(* POST /companies up to the last of its checks: the user and its          *)
(* entitlements, the competitor count, the self company, the domain.       *)
CreateCheck(r) ==
    /\ api[r].pc = "idle"
    /\ \A lower \in 1..(r - 1) : api[lower].pc # "idle"
    /\ \E u \in Users, type \in CompanyTypes, domain \in Domains :
          LET now == clock
              user == refreshTrialStatusIfExpired(users[u], now)
              entitlements == resolveEntitlements(user, now)
              currentCompetitorCount == Cardinality(CompaniesOf(u, {"competitor"}, StoredDomains))
              call == [NoCall EXCEPT !.route = "companies", !.user = u, !.type = type,
                                     !.domain = domain, !.now = now]
              Refuse(status, reason) ==
                  api' = [api EXCEPT ![r] = [call EXCEPT !.pc = "responded", !.now = Absent,
                                                         !.status = status, !.reason = reason]]
          IN  /\ users' = [users EXCEPT ![u] = user]
              /\ IF type = "competitor" /\ ~canAddCompetitor(entitlements, currentCompetitorCount)
                 THEN Refuse(403, "Competitor limit reached for current plan")
                 ELSE IF type = "self" /\ CompaniesOf(u, {"self"}, StoredDomains) # {}
                 THEN Refuse(409, "Self company already exists")
                 ELSE IF CompaniesOf(u, {type}, {domain}) # {}
                 THEN Refuse(409, "Company with this domain already exists for this type")
                 ELSE api' = [api EXCEPT ![r] = [call EXCEPT !.pc = "checked"]]
    /\ UNCHANGED <<request, fn, guards, digest, emails, clock, advances, cronRunLock, companies, snapshots, diffs, insights,
                   auditEvents, pc, job, lockResult, batch, item, thrown, response>>

(* Company.create and the 201 reply. *)
CreateInsert(r) ==
    /\ api[r].pc = "checked"
    /\ api[r].route = "companies"
    /\ LET id == Cardinality(DOMAIN companies) + 1
       IN  companies' = [c \in DOMAIN companies \cup {id} |->
                            IF c = id
                            THEN NewCompany(api[r].user, api[r].type, api[r].domain, api[r].now)
                            ELSE companies[c]]
    /\ ReplyTo(r, 201, "")
    /\ UNCHANGED <<request, fn, guards, digest, emails, clock, advances, cronRunLock, users, snapshots, diffs, insights,
                   auditEvents, pc, job, lockResult, batch, item, thrown, response>>

(***************************************************************************)
(* Pure functions, applied once to an input drawn from a bounded set.      *)
(***************************************************************************)
TrialStatuses == {"not_started", "active", "expired", "converted"}
PriceIds == {"price_pro", "price_starter", "price_gone", ""}
Instants == {5, 10}

EntitlementInputs ==
    {[user |-> [hasAccess |-> access, priceId |-> priceId, trialStatus |-> status,
                trialStartedAt |-> IF ends = Absent THEN Absent ELSE 0, trialEndsAt |-> ends],
      now |-> now] :
        access \in BOOLEAN, priceId \in PriceIds, status \in TrialStatuses,
        ends \in Instants \cup {Absent}, now \in Instants}

(* Inputs that are lists have at most this many entries. *)
MaxListLen == 2

ListsOf(items, len) == UNION {[1..n -> items] : n \in 0..len}

(***************************************************************************)
(* Pricing URL candidates.  A URL is what new URL() parses it into; host   *)
(* and path are sequences of tokens.                                       *)
(***************************************************************************)
Url(protocol, hostname, pathname, search) ==
    [protocol |-> protocol, hostname |-> hostname, pathname |-> pathname, search |-> search,
     hash |-> ""]

InvalidUrl == Url("none", <<>>, <<>>, "")

labelToLowerCase(label) == CASE label = "C" -> "c" [] label = "WWW" -> "www" [] OTHER -> label

(* hostname.toLowerCase().replace(/^www\./, "") *)
normalizeHostname(hostname) ==
    LET lower == [k \in 1..Len(hostname) |-> labelToLowerCase(hostname[k])]
    IN  IF Len(lower) > 1 /\ lower[1] = "www" THEN Tail(lower) ELSE lower

RECURSIVE collapseSlashes(_)
collapseSlashes(pathname) ==
    IF Len(pathname) <= 1 THEN pathname
    ELSE IF pathname[1] = "/" /\ pathname[2] = "/" THEN collapseSlashes(Tail(pathname))
    ELSE <<pathname[1]>> \o collapseSlashes(Tail(pathname))

normalizeUrlPath(pathname) ==
    LET normalized == collapseSlashes(pathname)
    IN  IF normalized = <<>> THEN <<"/">> ELSE normalized

normalizeUrl(value) ==
    LET prepared == IF value.protocol = "" THEN [value EXCEPT !.protocol = "https:"] ELSE value
    IN  IF prepared.protocol \notin {"http:", "https:"} THEN InvalidUrl
        ELSE [prepared EXCEPT !.hostname = normalizeHostname(@), !.hash = "", !.search = "",
                              !.pathname = normalizeUrlPath(@)]

(* Math.max(0, Math.min(1, value)) in hundredths, the two decimals of toFixed(2). *)
clampConfidence(value) == Max(0, Min(100, value))

(* Position of a token of a URL in the collation of localeCompare. *)
TokenRank(token) ==
    CASE token = "/" -> 0 [] token = "about" -> 1 [] token = "app" -> 2 [] token = "c" -> 3
      [] token = "example" -> 4 [] token = "http:" -> 5 [] token = "https:" -> 6
      [] token = "other" -> 7 [] token = "plans" -> 8 [] token = "pricing" -> 9
      [] token = "www" -> 10 [] OTHER -> 11

RECURSIVE TokensBefore(_, _)
TokensBefore(a, b) ==
    IF b = <<>> THEN FALSE
    ELSE IF a = <<>> THEN TRUE
    ELSE IF TokenRank(a[1]) # TokenRank(b[1]) THEN TokenRank(a[1]) < TokenRank(b[1])
    ELSE TokensBefore(Tail(a), Tail(b))

UrlTokens(url) == <<url.protocol>> \o url.hostname \o url.pathname

CandidateBefore(left, right) ==
    IF left.confidence # right.confidence THEN left.confidence > right.confidence
    ELSE TokensBefore(UrlTokens(left.url), UrlTokens(right.url))

sortCandidates(candidates) == SortSeq(candidates, CandidateBefore)

Position(byUrl, url) ==
    IF \E k \in 1..Len(byUrl) : byUrl[k].url = url
    THEN CHOOSE k \in 1..Len(byUrl) : byUrl[k].url = url
    ELSE 0

(* A merge that keeps the confidence of the entry it saw first. *)
mergeCandidate_keepFirst(byUrl, candidate) ==
    LET normalizedCandidateUrl == normalizeUrl(candidate.url)
        confidence == clampConfidence(candidate.confidence)
        existing == Position(byUrl, normalizedCandidateUrl)
    IN  IF normalizedCandidateUrl = InvalidUrl THEN byUrl
        ELSE IF existing = 0
        THEN Append(byUrl, [url |-> normalizedCandidateUrl, confidence |-> confidence,
                            selectedByUser |-> candidate.selectedByUser])
        ELSE [byUrl EXCEPT ![existing].selectedByUser = @ \/ candidate.selectedByUser]

(* One pass of the inner loop: the Map keeps its entries in insertion order. *)
mergeCandidate(byUrl, candidate) ==
    LET normalizedCandidateUrl == normalizeUrl(candidate.url)
        confidence == clampConfidence(candidate.confidence)
        existing == Position(byUrl, normalizedCandidateUrl)
    IN  IF normalizedCandidateUrl = InvalidUrl THEN byUrl
        ELSE IF existing = 0
        THEN Append(byUrl, [url |-> normalizedCandidateUrl, confidence |-> confidence,
                            selectedByUser |-> candidate.selectedByUser])
        ELSE [byUrl EXCEPT ![existing].confidence = Max(@, confidence),
                           ![existing].selectedByUser = @ \/ candidate.selectedByUser]

RECURSIVE mergeAll(_, _)
mergeAll(byUrl, candidates) ==
    IF candidates = <<>> THEN byUrl
    ELSE mergeAll(mergeCandidate(byUrl, Head(candidates)), Tail(candidates))

RECURSIVE Flatten(_)
Flatten(candidateLists) ==
    IF candidateLists = <<>> THEN <<>>
    ELSE Head(candidateLists) \o Flatten(Tail(candidateLists))

mergePricingUrlCandidates(candidateLists) ==
    sortCandidates(mergeAll(<<>>, Flatten(candidateLists)))

(***************************************************************************)
(* Where a company's URLs come from: POST /companies, discover-pricing,    *)
(* PATCH primary-pricing and the discovery of processCompany.  A domain is *)
(* a hostname: a sequence of labels.                                       *)
(***************************************************************************)
NoDomain == <<>>

(* A field the request body does not carry. *)
MissingUrl == Url("missing", <<>>, <<>>, "")

(* hostname === domain || hostname.endsWith(`.${domain}`) *)
isSameDomainOrSubdomain(hostname, domain) ==
    \/ hostname = domain
    \/ /\ Len(hostname) > Len(domain)
       /\ SubSeq(hostname, Len(hostname) - Len(domain) + 1, Len(hostname)) = domain

(* At least two labels, the last one a top-level domain. *)
isValidDomain(domain) == Len(domain) >= 2

normalizeDomainInput(value) ==
    IF value = NoDomain THEN NoDomain
    ELSE IF isValidDomain(normalizeHostname(value)) THEN normalizeHostname(value)
    ELSE NoDomain

(* normalizeDomain of the discovery module: no validity test. *)
normalizeDomain(value) == IF value = NoDomain THEN NoDomain ELSE normalizeHostname(value)

(* normalizeUrlInput of POST /companies: as normalizeUrl, the query kept. *)
normalizeUrlInput(value) ==
    IF value = MissingUrl THEN InvalidUrl
    ELSE LET prepared == IF value.protocol = "" THEN [value EXCEPT !.protocol = "https:"]
                         ELSE value
         IN  IF prepared.protocol \notin {"http:", "https:"} THEN InvalidUrl
             ELSE [prepared EXCEPT !.hostname = normalizeHostname(@), !.hash = "",
                                   !.pathname = normalizeUrlPath(@)]

PRICING_URL_DISCOVERY_MIN_CONFIDENCE == 35
PRICING_URL_DISCOVERY_MAX_CANDIDATES == 8
PRICING_URL_DISCOVERY_PRIMARY_CONFIDENCE_THRESHOLD == 86
PRICING_URL_DISCOVERY_MIN_PRIMARY_GAP == 8

(* The weights of the patterns a path or an anchor text matches, in hundredths. *)
positivePathScore(pathname) ==
    IF Len(pathname) >= 2 /\ pathname[2] = "pricing" THEN 85 + 52
    ELSE IF Len(pathname) >= 2 /\ pathname[2] = "plans" THEN 78 + 52
    ELSE 0

positiveTextScore(anchorText) ==
    IF anchorText = "Pricing" THEN 42 ELSE IF anchorText = "Plans" THEN 38 ELSE 0

negativePathScore(pathname) ==
    IF Len(pathname) >= 2 /\ pathname[2] = "about" THEN 25 ELSE 0

scoreCandidate(url, anchorText) ==
    LET path == positivePathScore(url.pathname)
        text == positiveTextScore(anchorText)
    IN  clampConfidence(4 + path + text
                        + (IF path > 50 /\ text > 20 THEN 12 ELSE 0)
                        - (IF url.pathname = <<"/">> /\ text < 20 THEN 12 ELSE 0)
                        - negativePathScore(url.pathname))

(* new URL(anchor.href, normalizedHomepageUrl) *)
resolveHref(href, base) ==
    IF href.protocol = "" /\ href.hostname = <<>>
    THEN [href EXCEPT !.protocol = base.protocol, !.hostname = base.hostname]
    ELSE href

(* The loop over the anchors: candidateMap keeps, for each URL of the allowed *)
(* domain, the highest confidence seen.                                       *)
RECURSIVE collectCandidates(_, _, _, _)
collectCandidates(anchors, candidateMap, homepage, allowedDomain) ==
    IF anchors = <<>> THEN candidateMap
    ELSE LET anchor == Head(anchors)
             candidateUrl == normalizeUrl(resolveHref(anchor.href, homepage))
             confidence == scoreCandidate(candidateUrl, anchor.text)
             existing == Position(candidateMap, candidateUrl)
             entry == [url |-> candidateUrl, confidence |-> confidence,
                       selectedByUser |-> FALSE]
             next ==
                 IF candidateUrl = InvalidUrl THEN candidateMap
                 ELSE IF ~isSameDomainOrSubdomain(normalizeHostname(candidateUrl.hostname),
                                                  allowedDomain)
                 THEN candidateMap
                 ELSE IF confidence < PRICING_URL_DISCOVERY_MIN_CONFIDENCE THEN candidateMap
                 ELSE IF existing = 0 THEN Append(candidateMap, entry)
                 ELSE IF confidence > candidateMap[existing].confidence
                 THEN [candidateMap EXCEPT ![existing] = entry]
                 ELSE candidateMap
         IN  collectCandidates(Tail(anchors), next, homepage, allowedDomain)

pickRecommendedPrimaryUrl(candidates) ==
    IF candidates = <<>> THEN InvalidUrl
    ELSE IF candidates[1].confidence < PRICING_URL_DISCOVERY_PRIMARY_CONFIDENCE_THRESHOLD
    THEN InvalidUrl
    ELSE IF Len(candidates) >= 2
            /\ candidates[1].confidence - candidates[2].confidence
                   < PRICING_URL_DISCOVERY_MIN_PRIMARY_GAP
    THEN InvalidUrl
    ELSE candidates[1].url

(* The homepage could not be fetched. *)
NoPage == <<[href |-> InvalidUrl, text |-> "none"]>>

(* input: homepageUrl and allowedDomain; page: the anchors of the homepage. *)
discoverPricingUrlsFromHomepage(input, page) ==
    LET normalizedHomepageUrl == normalizeUrl(input.homepageUrl)
        allowedDomain == IF normalizeDomain(input.allowedDomain) # NoDomain
                         THEN normalizeDomain(input.allowedDomain)
                         ELSE normalizeHostname(normalizedHomepageUrl.hostname)
        found == sortCandidates(collectCandidates(page, <<>>, normalizedHomepageUrl,
                                                  allowedDomain))
        candidates == SubSeq(found, 1, Min(Len(found), PRICING_URL_DISCOVERY_MAX_CANDIDATES))
    IN  IF normalizedHomepageUrl = InvalidUrl \/ page = NoPage
        THEN [candidates |-> <<>>, recommendedPrimaryUrl |-> InvalidUrl]
        ELSE [candidates |-> candidates,
              recommendedPrimaryUrl |-> pickRecommendedPrimaryUrl(candidates)]

(* What a handler answers, and the fields of the company document it wrote. *)
NoCompanyDoc ==
    [domain |-> NoDomain, type |-> "none", homepageUrl |-> InvalidUrl,
     primaryPricingUrl |-> InvalidUrl, pricingUrlCandidates |-> <<>>]

Written(status, company) == [status |-> status, company |-> company]

(* POST /companies from the normalisation of the body to Company.create;   *)
(* the caller is signed in, within its rate limit and its plan, and owns   *)
(* no company of this type and domain.                                     *)
companiesPost(body, page) ==
    LET normalizedHomepageUrl == normalizeUrlInput(body.homepageUrl)
        normalizedPricingUrl == normalizeUrlInput(body.primaryPricingUrl)
        domainFromInput == normalizeDomainInput(body.domain)
        normalizedDomain ==
            IF domainFromInput # NoDomain THEN domainFromInput
            ELSE IF normalizedHomepageUrl # InvalidUrl
            THEN normalizeHostname(normalizedHomepageUrl.hostname)
            ELSE IF normalizedPricingUrl # InvalidUrl
            THEN normalizeHostname(normalizedPricingUrl.hostname)
            ELSE NoDomain
        discovers == /\ body.type = "competitor"
                     /\ normalizedPricingUrl = InvalidUrl
                     /\ normalizedHomepageUrl # InvalidUrl
        discovery == IF discovers
                     THEN discoverPricingUrlsFromHomepage(
                              [homepageUrl |-> normalizedHomepageUrl,
                               allowedDomain |-> normalizedDomain], page)
                     ELSE [candidates |-> <<>>, recommendedPrimaryUrl |-> InvalidUrl]
        userProvidedCandidates ==
            IF normalizedPricingUrl # InvalidUrl
            THEN <<[url |-> normalizedPricingUrl, confidence |-> 100, selectedByUser |-> TRUE]>>
            ELSE <<>>
    IN  IF body.homepageUrl # MissingUrl /\ normalizedHomepageUrl = InvalidUrl
        THEN Written(400, NoCompanyDoc)
        ELSE IF body.primaryPricingUrl # MissingUrl /\ normalizedPricingUrl = InvalidUrl
        THEN Written(400, NoCompanyDoc)
        ELSE IF body.domain # NoDomain /\ domainFromInput = NoDomain
        THEN Written(400, NoCompanyDoc)
        ELSE IF normalizedDomain = NoDomain THEN Written(400, NoCompanyDoc)
        ELSE IF /\ normalizedHomepageUrl # InvalidUrl
                /\ ~isSameDomainOrSubdomain(normalizeHostname(normalizedHomepageUrl.hostname),
                                            normalizedDomain)
        THEN Written(400, NoCompanyDoc)
        ELSE IF /\ normalizedPricingUrl # InvalidUrl
                /\ ~isSameDomainOrSubdomain(normalizeHostname(normalizedPricingUrl.hostname),
                                            normalizedDomain)
        THEN Written(400, NoCompanyDoc)
        ELSE Written(201,
                 [domain |-> normalizedDomain, type |-> body.type,
                  homepageUrl |-> normalizedHomepageUrl,
                  primaryPricingUrl |-> IF normalizedPricingUrl # InvalidUrl
                                        THEN normalizedPricingUrl
                                        ELSE discovery.recommendedPrimaryUrl,
                  pricingUrlCandidates |->
                      mergePricingUrlCandidates(<<userProvidedCandidates,
                                                  discovery.candidates>>)])

(* POST discover-pricing from the homepage test to company.save(). *)
discoverPricing(company, page) ==
    LET discovery == discoverPricingUrlsFromHomepage(
                         [homepageUrl |-> company.homepageUrl,
                          allowedDomain |-> company.domain], page)
    IN  IF company.homepageUrl = InvalidUrl THEN Written(400, company)
        ELSE Written(200,
                 [company EXCEPT
                     !.pricingUrlCandidates =
                         mergePricingUrlCandidates(<<@, discovery.candidates>>),
                     !.primaryPricingUrl =
                         IF @ = InvalidUrl /\ discovery.recommendedPrimaryUrl # InvalidUrl
                         THEN discovery.recommendedPrimaryUrl ELSE @])

(* matchesCompanyDomain of PATCH primary-pricing, on parsed URLs. *)
matchesDomain(url, companyDomain) ==
    isSameDomainOrSubdomain(normalizeHostname(url.hostname), normalizeHostname(companyDomain))

setSelectedCandidate(candidates, selectedUrl) ==
    [k \in 1..Len(candidates) |->
        [candidates[k] EXCEPT !.selectedByUser = candidates[k].url = selectedUrl]]

(* PATCH primary-pricing from the normalisation of the body to company.save(). *)
primaryPricingPatch(company, body) ==
    LET selectingExistingCandidate == body.candidateUrl # MissingUrl
        selectedUrlInput == IF selectingExistingCandidate THEN body.candidateUrl ELSE body.url
        normalizedSelectedUrl == normalizeUrl(selectedUrlInput)
        mergedCandidates == mergePricingUrlCandidates(<<company.pricingUrlCandidates>>)
        nextCandidates ==
            IF selectingExistingCandidate THEN mergedCandidates
            ELSE mergePricingUrlCandidates(
                     <<mergedCandidates,
                       <<[url |-> normalizedSelectedUrl, confidence |-> 100,
                          selectedByUser |-> TRUE]>>>>)
    IN  IF normalizedSelectedUrl = InvalidUrl THEN Written(400, company)
        ELSE IF ~matchesDomain(normalizedSelectedUrl, company.domain) THEN Written(400, company)
        ELSE IF /\ selectingExistingCandidate
                /\ Position(mergedCandidates, normalizedSelectedUrl) = 0
        THEN Written(400, company)
        ELSE Written(200,
                 [company EXCEPT
                     !.primaryPricingUrl = normalizedSelectedUrl,
                     !.pricingUrlCandidates =
                         setSelectedCandidate(nextCandidates, normalizedSelectedUrl)])

(* processCompany: the discovery at its start and what the finally block   *)
(* writes of it.                                                           *)
processCompanyDiscovery(company, page) ==
    LET attemptedDiscovery == /\ company.primaryPricingUrl = InvalidUrl
                              /\ company.homepageUrl # InvalidUrl
        discovery == discoverPricingUrlsFromHomepage(
                         [homepageUrl |-> company.homepageUrl,
                          allowedDomain |-> company.domain], page)
    IN  IF ~attemptedDiscovery THEN Written(0, company)
        ELSE Written(0,
                 [company EXCEPT
                     !.pricingUrlCandidates =
                         mergePricingUrlCandidates(<<@, discovery.candidates>>),
                     !.primaryPricingUrl = discovery.recommendedPrimaryUrl])

(* Candidates as discovery and the user produce them: the same page under  *)
(* several spellings, confidences outside [0, 1], one URL that is no URL.  *)
CandidateInputs ==
    LET host == <<"c", "example">>
        candidate(url, confidence, selectedByUser) ==
            [url |-> url, confidence |-> confidence, selectedByUser |-> selectedByUser]
    IN  {candidate(Url("https:", host, <<"/", "pricing">>, ""), 40, FALSE),
         candidate(Url("https:", <<"WWW", "C", "example">>, <<"/", "pricing">>, "?x=1"), 90, TRUE),
         candidate(Url("", host, <<"/", "/", "pricing">>, ""), 120, FALSE),
         candidate(Url("https:", host, <<"/", "plans">>, ""), 90, FALSE),
         candidate(Url("http:", host, <<"/", "plans">>, ""), 90, TRUE),
         candidate(Url("https:", host, <<>>, ""), -10, TRUE),
         candidate(Url("ftp:", host, <<"/", "pricing">>, ""), 90, TRUE)}

MergeInputs(len) ==
    {[a |-> a, b |-> b] : a \in ListsOf(CandidateInputs, len), b \in ListsOf(CandidateInputs, len)}

(* Payloads as a caller may build them: titles with stray blanks, names in *)
(* either case, currencies in either case, repeated and unsorted prices.   *)
TitleInputs == {NoText, <<>>, <<" ">>, <<"a">>, <<" ", "a", " ", " ", "B">>}
NameInputs == {<<"B">>, <<"b", " ">>, <<" ">>}
PriceInputs ==
    {[currency |-> currency, period |-> period, amount |-> amount] :
        currency \in {"usd", "USD", "EUR"}, period \in {"month", "year"}, amount \in {1900, 4900}}

PayloadInputs(len) ==
    {[sourceUrl |-> "https://c.example/pricing", pageTitle |-> title,
      pageDescription |-> description, planNames |-> names, priceMentions |-> prices,
      customPricingHints |-> hints] :
        title \in TitleInputs, description \in {NoText, <<"a", " ", " ", "b">>},
        names \in ListsOf(NameInputs, len), prices \in ListsOf(PriceInputs, len),
        hints \in {<<>>, <<ContactSales>>, <<ContactSales, <<"a">>, ContactSales>>}}

(* What a user may type and what a homepage may link to: the company's own *)
(* host with and without www, a subdomain, another site, a doubled www.     *)
DomainInputs ==
    {NoDomain, <<"c", "example">>, <<"www", "www", "c", "example">>, <<"example">>}

HomepageInputs ==
    {MissingUrl,
     Url("https:", <<"WWW", "c", "example">>, <<"/">>, ""),
     Url("", <<"app", "www", "c", "example">>, <<"/">>, ""),
     Url("https:", <<"other", "example">>, <<"/">>, "")}

PricingInputs ==
    {MissingUrl,
     Url("https:", <<"c", "example">>, <<"/", "pricing">>, ""),
     Url("https:", <<"other", "example">>, <<"/", "pricing">>, ""),
     Url("ftp:", <<"c", "example">>, <<"/", "pricing">>, "")}

AnchorInputs ==
    {[href |-> Url("", <<>>, <<"/", "pricing">>, ""), text |-> "Pricing"],
     [href |-> Url("https:", <<"app", "c", "example">>, <<"/", "plans">>, ""), text |-> "Plans"],
     [href |-> Url("https:", <<"other", "example">>, <<"/", "pricing">>, ""), text |-> "Pricing"],
     [href |-> Url("https:", <<"c", "example">>, <<"/", "about">>, ""), text |-> ""]}

PageInputs(len) == ListsOf(AnchorInputs, len) \cup {NoPage}

PostInputs(len) ==
    {[body |-> [type |-> type, domain |-> domain, homepageUrl |-> homepage,
                primaryPricingUrl |-> pricing],
      page |-> page] :
        type \in {"self", "competitor"}, domain \in DomainInputs, homepage \in HomepageInputs,
        pricing \in PricingInputs, page \in PageInputs(len)}

(* The company documents POST /companies creates. *)
CompanyDocs(len) ==
    {companiesPost(in.body, in.page).company :
        in \in {p \in PostInputs(len) : companiesPost(p.body, p.page).status = 201}}

DiscoveryInputs(len) == {[company |-> company, page |-> page] :
                            company \in CompanyDocs(len), page \in PageInputs(len)}

PatchInputs(len) ==
    {[company |-> company, body |-> body] :
        company \in CompanyDocs(len),
        body \in {[url |-> url, candidateUrl |-> MissingUrl] :
                      url \in PricingInputs \ {MissingUrl}}
              \cup {[url |-> MissingUrl, candidateUrl |-> url] :
                        url \in PricingInputs \ {MissingUrl}}}

FnInputs(len) ==
    {[NoFn EXCEPT !.name = "resolveEntitlements", !.input = in] : in \in EntitlementInputs}
    \cup {[NoFn EXCEPT !.name = "companiesPost", !.input = in] : in \in PostInputs(len)}
    \cup {[NoFn EXCEPT !.name = "discoverPricing", !.input = in] : in \in DiscoveryInputs(len)}
    \cup {[NoFn EXCEPT !.name = "processCompanyDiscovery", !.input = in] :
            in \in DiscoveryInputs(len)}
    \cup {[NoFn EXCEPT !.name = "primaryPricingPatch", !.input = in] : in \in PatchInputs(len)}
    \cup {[NoFn EXCEPT !.name = "canonicalizePricingPayload", !.input = in] : in \in PayloadInputs(len)}
    \cup {[NoFn EXCEPT !.name = "mergePricingUrlCandidates", !.input = in] : in \in MergeInputs(len)}

Apply(name, output) ==
    /\ fn.name = name
    /\ ~fn.done
    /\ fn' = [fn EXCEPT !.output = output, !.done = TRUE]
    /\ UNCHANGED <<clock, advances, cronRunLock, companies, users, snapshots, diffs, insights,
                   auditEvents, pc, job, lockResult, batch, item, thrown, response, api,
                   digest, emails, request, guards>>

ApplyCanonicalizePricingPayload ==
    Apply("canonicalizePricingPayload", canonicalizePricingPayload(fn.input))

ApplyMergePricingUrlCandidates ==
    Apply("mergePricingUrlCandidates", mergePricingUrlCandidates(<<fn.input.a, fn.input.b>>))

ApplyResolveEntitlements ==
    Apply("resolveEntitlements", resolveEntitlements(fn.input.user, fn.input.now))

ApplyCompaniesPost ==
    Apply("companiesPost", companiesPost(fn.input.body, fn.input.page))

ApplyDiscoverPricing ==
    Apply("discoverPricing", discoverPricing(fn.input.company, fn.input.page))

ApplyProcessCompanyDiscovery ==
    Apply("processCompanyDiscovery", processCompanyDiscovery(fn.input.company, fn.input.page))

ApplyPrimaryPricingPatch ==
    Apply("primaryPricingPatch", primaryPricingPatch(fn.input.company, fn.input.body))

(* Two snapshots of a pricing page to compare: the monthly and the yearly   *)
(* prices before and after, in ascending order, and the custom-pricing      *)
(* hints before and after.  The amounts sit on both sides of the half       *)
(* dollar, of one percent, of ten percent and of twenty percent.            *)
AmountLists ==
    {<<>>, <<4900>>, <<4949>>, <<4950>>, <<5390>>, <<5900>>, <<5001>>, <<6001>>,
     <<10000>>, <<10050>>, <<10100>>, <<1900, 4900>>, <<1900, 5900>>}

YearlyLists == {<<>>, <<29900, 49900>>}

HintLists == {<<>>, <<ContactSales>>}

Priced(period, amounts) ==
    [k \in 1..Len(amounts) |->
        [currency |-> "USD", period |-> period, amount |-> amounts[Len(amounts) + 1 - k]]]

PayloadOf(monthly, yearly, hints) ==
    [EmptyPayload EXCEPT !.sourceUrl = "https://c.example/pricing",
                         !.priceMentions = Priced("month", monthly) \o Priced("year", yearly),
                         !.customPricingHints = hints]

DiffInputs ==
    {[monthly |-> [previous |-> mp, current |-> mc],
      yearly |-> [previous |-> yp, current |-> yc],
      hints |-> [previous |-> hp, current |-> hc],
      verified |-> TRUE] :
        mp \in AmountLists, mc \in AmountLists, yp \in YearlyLists, yc \in YearlyLists,
        hp \in HintLists, hc \in HintLists}

DiffFnInputs == {[NoFn EXCEPT !.name = "generatePricingDiff", !.input = in] : in \in DiffInputs}

ApplyGeneratePricingDiff ==
    Apply("generatePricingDiff",
          generatePricingDiff(
              PayloadOf(fn.input.monthly.previous, fn.input.yearly.previous, fn.input.hints.previous),
              PayloadOf(fn.input.monthly.current, fn.input.yearly.current, fn.input.hints.current),
              fn.input.verified))

(***************************************************************************)
(* Write rate limiter: enforceWriteRateLimit on one key.  Each of its      *)
(* queries on RateLimitCounter is one step; instants are counted in half   *)
(* windows.                                                                *)
(***************************************************************************)
(* The limit of POST /api/trial/start: maxRequests 3, windowMs 60 * 1000. *)
WriteLimit == [maxRequests |-> 3, windowMs |-> 2]

SecondsPerInstant == 30

windowDurationMs(input) == Max(input.windowMs, 1)

createResult(w, allowed, remaining, retryAfterSeconds, window) ==
    [w EXCEPT !.pc = "answered", !.allowed = allowed, !.remaining = Max(remaining, 0),
              !.retryAfterSeconds = Max(retryAfterSeconds, 0), !.window = window]

isNewWindow(created, now) == created.windowStartedAt = now /\ created.count = 1

(* const now = new Date(): callers are numbered in the order they call. *)
LimitBegin(k) ==
    /\ writer[k].pc = "idle"
    /\ k > 1 => writer[k - 1].pc # "idle"
    /\ writer' = [writer EXCEPT ![k] = [@ EXCEPT !.pc = "upsert", !.now = clock]]
    /\ UNCHANGED <<clock, advances, cronRunLock, companies, users, snapshots, diffs, insights,
                   auditEvents, pc, job, lockResult, batch, item, thrown, response, api, fn,
                   digest, emails, request, rateLimitCounter, processedStripeEvent, delivery>>

(* findOneAndUpdate({ key }, { $setOnInsert }, { upsert: true, new: true }). *)
LimitUpsert(k, input) ==
    /\ writer[k].pc = "upsert"
    /\ LET now == writer[k].now
           created == IF rateLimitCounter = NoCounter
                      THEN [count |-> 1, windowStartedAt |-> now,
                            expiresAt |-> now + windowDurationMs(input) * 2]
                      ELSE rateLimitCounter
       IN  /\ rateLimitCounter' = created
           /\ writer' = [writer EXCEPT ![k] =
                            IF isNewWindow(created, now)
                            THEN createResult(@, TRUE, input.maxRequests - 1, 0,
                                              created.windowStartedAt)
                            ELSE [@ EXCEPT !.pc = "reset"]]
    /\ UNCHANGED <<clock, advances, cronRunLock, companies, users, snapshots, diffs, insights,
                   auditEvents, pc, job, lockResult, batch, item, thrown, response, api, fn,
                   digest, emails, request, processedStripeEvent, delivery>>

(* findOneAndUpdate({ key, windowStartedAt: { $lte: windowExpiredBefore } }, { $set }). *)
LimitReset(k, input) ==
    /\ writer[k].pc = "reset"
    /\ LET now == writer[k].now
           windowExpiredBefore == now - windowDurationMs(input)
       IN  IF rateLimitCounter # NoCounter
              /\ rateLimitCounter.windowStartedAt <= windowExpiredBefore
           THEN /\ rateLimitCounter' = [count |-> 1, windowStartedAt |-> now,
                                        expiresAt |-> now + windowDurationMs(input) * 2]
                /\ writer' = [writer EXCEPT ![k] =
                                 createResult(@, TRUE, input.maxRequests - 1, 0, now)]
           ELSE /\ writer' = [writer EXCEPT ![k].pc = "increment"]
                /\ UNCHANGED rateLimitCounter
    /\ UNCHANGED <<clock, advances, cronRunLock, companies, users, snapshots, diffs, insights,
                   auditEvents, pc, job, lockResult, batch, item, thrown, response, api, fn,
                   digest, emails, request, processedStripeEvent, delivery>>

(* findOneAndUpdate({ key, windowStartedAt: { $gt }, count: { $lt } }, { $inc, $set }). *)
LimitIncrement(k, input) ==
    /\ writer[k].pc = "increment"
    /\ LET now == writer[k].now
           windowExpiredBefore == now - windowDurationMs(input)
       IN  IF /\ rateLimitCounter # NoCounter
              /\ rateLimitCounter.windowStartedAt > windowExpiredBefore
              /\ rateLimitCounter.count < input.maxRequests
           THEN LET incremented ==
                        [rateLimitCounter EXCEPT !.count = @ + 1,
                                                 !.expiresAt = now + windowDurationMs(input) * 2]
                IN  /\ rateLimitCounter' = incremented
                    /\ writer' = [writer EXCEPT ![k] =
                                     createResult(@, TRUE, input.maxRequests - incremented.count,
                                                  0, incremented.windowStartedAt)]
           ELSE /\ writer' = [writer EXCEPT ![k].pc = "read"]
                /\ UNCHANGED rateLimitCounter
    /\ UNCHANGED <<clock, advances, cronRunLock, companies, users, snapshots, diffs, insights,
                   auditEvents, pc, job, lockResult, batch, item, thrown, response, api, fn,
                   digest, emails, request, processedStripeEvent, delivery>>

(* findOne({ key }) and the answer that denies. *)
LimitRead(k, input) ==
    /\ writer[k].pc = "read"
    /\ LET now == writer[k].now
           current == rateLimitCounter
       IN  writer' = [writer EXCEPT ![k] =
                        IF current = NoCounter
                        THEN createResult(@, TRUE, input.maxRequests - 1, 0, now)
                        ELSE LET elapsedMs == now - current.windowStartedAt
                             IN  createResult(@, FALSE, 0,
                                              (windowDurationMs(input) - elapsedMs)
                                                  * SecondsPerInstant,
                                              current.windowStartedAt)]
    /\ UNCHANGED <<clock, advances, cronRunLock, companies, users, snapshots, diffs, insights,
                   auditEvents, pc, job, lockResult, batch, item, thrown, response, api, fn,
                   digest, emails, request, rateLimitCounter, processedStripeEvent, delivery>>

(* The TTL index on expiresAt removes a counter that has run out. *)
LimitExpire ==
    /\ rateLimitCounter # NoCounter
    /\ rateLimitCounter.expiresAt <= clock
    /\ rateLimitCounter' = NoCounter
    /\ UNCHANGED <<clock, advances, cronRunLock, companies, users, snapshots, diffs, insights,
                   auditEvents, pc, job, lockResult, batch, item, thrown, response, api, fn,
                   digest, emails, request, writer, processedStripeEvent, delivery>>

(* One instant passes. *)
Tick ==
    /\ advances < MaxTicks
    /\ clock' = clock + 1
    /\ advances' = advances + 1
    /\ UNCHANGED <<cronRunLock, companies, users, snapshots, diffs, insights,
                   auditEvents, pc, job, lockResult, batch, item, thrown, response, api, fn,
                   digest, emails, request, guards>>

NextLimiter ==
    \/ Tick
    \/ LimitExpire
    \/ \E k \in Writers : LimitBegin(k)
    \/ \E k \in Writers : LimitUpsert(k, WriteLimit)
    \/ \E k \in Writers : LimitReset(k, WriteLimit)
    \/ \E k \in Writers : LimitIncrement(k, WriteLimit)
    \/ \E k \in Writers : LimitRead(k, WriteLimit)

SpecLimiter == Init /\ [][NextLimiter]_vars

(***************************************************************************)
(* Billing-event ledger: the deliveries of one Stripe event to the webhook. *)
(* Each query on ProcessedStripeEvent is one step; instants are minutes.    *)
(***************************************************************************)
STRIPE_EVENT_LOCK_MS == 5

UnchangedByDelivery ==
    UNCHANGED <<clock, advances, cronRunLock, companies, users, snapshots, diffs, insights,
                auditEvents, pc, job, lockResult, batch, item, thrown, response, api, fn,
                digest, emails, request, rateLimitCounter, writer>>

Process(d, attempt, lock) ==
    [d EXCEPT !.pc = "handling", !.action = "process", !.attempt = attempt, !.lockExpiresAt = lock]

Skip(d, reason) == [d EXCEPT !.pc = "responded", !.action = "skip", !.reason = reason]

(* const now = new Date(): deliveries are numbered in the order they arrive. *)
DeliveryBegin(d) ==
    /\ delivery[d].pc = "idle"
    /\ d > 1 => delivery[d - 1].pc # "idle"
    /\ delivery' = [delivery EXCEPT ![d] = [@ EXCEPT !.pc = "create", !.now = clock]]
    /\ UNCHANGED processedStripeEvent
    /\ UnchangedByDelivery

(* ProcessedStripeEvent.create, which the unique index on eventId rejects *)
(* when the event has a record.                                           *)
ClaimCreate(d) ==
    /\ delivery[d].pc = "create"
    /\ IF processedStripeEvent = NoEvent
       THEN /\ processedStripeEvent' =
                  [status |-> "processing", attempts |-> 1,
                   lockExpiresAt |-> delivery[d].now + STRIPE_EVENT_LOCK_MS]
            /\ delivery' = [delivery EXCEPT ![d] =
                               Process(@, 1, delivery[d].now + STRIPE_EVENT_LOCK_MS)]
       ELSE /\ delivery' = [delivery EXCEPT ![d].pc = "find"]
            /\ UNCHANGED processedStripeEvent
    /\ UnchangedByDelivery

(* The answer to a record that is processed or is being processed. *)
SkipReason(record, now) ==
    IF record = NoEvent THEN "none"
    ELSE IF record.status = "processed" THEN "already_processed"
    ELSE IF record.status = "processing" /\ record.lockExpiresAt > now THEN "in_progress"
    ELSE "none"

(* findOne({ eventId }) after the duplicate-key error. *)
ClaimFind(d) ==
    /\ delivery[d].pc = "find"
    /\ LET existing == processedStripeEvent
       IN  delivery' = [delivery EXCEPT ![d] =
                          IF existing = NoEvent THEN Process(@, 1, Absent)
                          ELSE IF SkipReason(existing, @.now) # "none"
                          THEN Skip(@, SkipReason(existing, @.now))
                          ELSE [@ EXCEPT !.pc = "update", !.existing = existing]]
    /\ UNCHANGED processedStripeEvent
    /\ UnchangedByDelivery

(* updateOne({ eventId, lockExpiresAt: { $lte: now } }, { $set, $inc }). *)
ClaimUpdate(d) ==
    /\ delivery[d].pc = "update"
    /\ IF processedStripeEvent # NoEvent /\ processedStripeEvent.lockExpiresAt <= delivery[d].now
       THEN /\ processedStripeEvent' =
                  [processedStripeEvent EXCEPT
                      !.status = "processing",
                      !.lockExpiresAt = delivery[d].now + STRIPE_EVENT_LOCK_MS,
                      !.attempts = @ + 1]
            /\ delivery' = [delivery EXCEPT ![d] =
                               [@ EXCEPT !.pc = "refreshed",
                                         !.lockExpiresAt = delivery[d].now
                                                              + STRIPE_EVENT_LOCK_MS]]
       ELSE /\ delivery' = [delivery EXCEPT ![d].pc = "latest"]
            /\ UNCHANGED processedStripeEvent
    /\ UnchangedByDelivery

(* findOne({ eventId }) after the claim: the attempt number. *)
ClaimRefreshed(d) ==
    /\ delivery[d].pc = "refreshed"
    /\ LET refreshed == processedStripeEvent
       IN  delivery' = [delivery EXCEPT ![d] =
                          Process(@, IF refreshed = NoEvent THEN @.existing.attempts + 1
                                     ELSE refreshed.attempts, @.lockExpiresAt)]
    /\ UNCHANGED processedStripeEvent
    /\ UnchangedByDelivery

(* findOne({ eventId }) after an update that matched nothing. *)
ClaimLatest(d) ==
    /\ delivery[d].pc = "latest"
    /\ LET latest == processedStripeEvent
       IN  delivery' = [delivery EXCEPT ![d] =
                          IF SkipReason(latest, @.now) # "none"
                          THEN Skip(@, SkipReason(latest, @.now))
                          ELSE Process(@, IF latest = NoEvent THEN @.existing.attempts + 1
                                          ELSE latest.attempts, Absent)]
    /\ UNCHANGED processedStripeEvent
    /\ UnchangedByDelivery

(* The switch over event.type has run: markStripeEventProcessed, or the    *)
(* catch block with markStripeEventFailed.                                 *)
DeliveryHandled(d) ==
    /\ delivery[d].pc = "handling"
    /\ \E status \in {"processed", "failed"} :
          processedStripeEvent' =
              IF processedStripeEvent = NoEvent THEN NoEvent
              ELSE [processedStripeEvent EXCEPT !.status = status, !.lockExpiresAt = clock]
    /\ delivery' = [delivery EXCEPT ![d].pc = "responded"]
    /\ UnchangedByDelivery

(* Time passes until the lock of the record runs out. *)
LockRunsOut ==
    /\ advances < MaxTicks
    /\ processedStripeEvent # NoEvent
    /\ processedStripeEvent.lockExpiresAt > clock
    /\ clock' = processedStripeEvent.lockExpiresAt
    /\ advances' = advances + 1
    /\ UNCHANGED <<cronRunLock, companies, users, snapshots, diffs, insights,
                   auditEvents, pc, job, lockResult, batch, item, thrown, response, api, fn,
                   digest, emails, request, guards>>

NextLedger ==
    \/ Tick
    \/ LockRunsOut
    \/ \E d \in Deliveries : DeliveryBegin(d)
    \/ \E d \in Deliveries : ClaimCreate(d)
    \/ \E d \in Deliveries : ClaimFind(d)
    \/ \E d \in Deliveries : ClaimUpdate(d)
    \/ \E d \in Deliveries : ClaimRefreshed(d)
    \/ \E d \in Deliveries : ClaimLatest(d)
    \/ \E d \in Deliveries : DeliveryHandled(d)

SpecLedger == Init /\ [][NextLedger]_vars

(***************************************************************************)
(* Specification.                                                          *)
(***************************************************************************)
Next ==
    \/ Advance
    \/ \E i \in Inv : Start(i, SchedulerEnv)
    \/ \E i \in Inv : AcquireCreate(i, SchedulerEnv)
    \/ \E i \in Inv : AcquireFind(i)
    \/ \E i \in Inv : RunDigest(i, SchedulerEnv)
    \/ \E i \in Inv : BatchStart(i, SchedulerEnv)
    \/ \E i \in Inv : Claim(i, SchedulerEnv)
    \/ \E i \in Inv : ProcessBegin(i, SchedulerEnv)
    \/ \E i \in Inv : ProcessSnapshotFind(i, SchedulerEnv)
    \/ \E i \in Inv : ProcessWrite(i, SchedulerEnv)
    \/ \E i \in Inv : Finalize(i, SchedulerEnv)
    \/ \E i \in Inv : Release(i)

Spec == Init /\ [][Next]_vars

(* The cron ticks are far enough apart for a request to reply before the   *)
(* next one arrives.                                                       *)
Sequential(i) == \A other \in Inv \ {i} : pc[other] \in {"idle", "responded"}

NextPipeline ==
    \/ Advance
    \/ \E i \in Inv : Sequential(i) /\ Start(i, PipelineEnv)
    \/ \E i \in Inv : AcquireCreate(i, PipelineEnv)
    \/ \E i \in Inv : BatchStart(i, PipelineEnv)
    \/ \E i \in Inv : Claim(i, PipelineEnv)
    \/ \E i \in Inv : ProcessBegin(i, PipelineEnv)
    \/ \E i \in Inv : ProcessSnapshotFind(i, PipelineEnv)
    \/ \E i \in Inv : ProcessWrite(i, PipelineEnv)
    \/ \E i \in Inv : Finalize(i, PipelineEnv)
    \/ \E i \in Inv : Release(i)

SpecPipeline == Init /\ [][NextPipeline]_vars

NextFailures ==
    \/ Advance
    \/ \E i \in Inv : Sequential(i) /\ Start(i, FailureEnv)
    \/ \E i \in Inv : AcquireCreate(i, FailureEnv)
    \/ \E i \in Inv : BatchStart(i, FailureEnv)
    \/ \E i \in Inv : Claim(i, FailureEnv)
    \/ \E i \in Inv : ProcessBegin(i, FailureEnv)
    \/ \E i \in Inv : ProcessSnapshotFind(i, FailureEnv)
    \/ \E i \in Inv : ProcessWrite(i, FailureEnv)
    \/ \E i \in Inv : Finalize(i, FailureEnv)
    \/ \E i \in Inv : Release(i)

SpecFailures == Init /\ [][NextFailures]_vars

(* Cron batches and the owners' company requests. *)
NextInteractive ==
    \/ Advance
    \/ \E i \in Inv : Sequential(i) /\ Start(i, InteractiveEnv)
    \/ \E i \in Inv : AcquireCreate(i, InteractiveEnv)
    \/ \E i \in Inv : BatchStart(i, InteractiveEnv)
    \/ \E i \in Inv : Claim(i, InteractiveEnv)
    \/ \E i \in Inv : ProcessBegin(i, InteractiveEnv)
    \/ \E i \in Inv : ProcessSnapshotFind(i, InteractiveEnv)
    \/ \E i \in Inv : ProcessWrite(i, InteractiveEnv)
    \/ \E i \in Inv : Finalize(i, InteractiveEnv)
    \/ \E i \in Inv : Release(i)
    \/ \E r \in Api : ApiSequential(r) /\ CompanyLoad(r, CompanyRoutes)
    \/ \E r \in Api : CrawlNowSave(r)
    \/ \E r \in Api : RetryCrawlSave(r)
    \/ \E r \in Api : PrimaryPricingSave(r)

SpecInteractive == Init /\ [][NextInteractive]_vars

(* The requests that refresh, grant or revoke: GET /entitlements/me and   *)
(* the billing events invoice.paid and customer.subscription.deleted.     *)
AccessRoutes == {"entitlements", "grant", "revoke"}

(* User.findById of such a request. *)
AccessLoad(r) ==
    /\ api[r].pc = "idle"
    /\ \A lower \in 1..(r - 1) : api[lower].pc # "idle"
    /\ \E route \in AccessRoutes, u \in Users :
          api' = [api EXCEPT ![r] = [NoCall EXCEPT !.pc = "loaded", !.route = route,
                                                   !.user = u, !.now = clock, !.doc = users[u]]]
    /\ UNCHANGED <<request, fn, guards, digest, emails, clock, advances, cronRunLock, companies, users,
                   snapshots, diffs, insights, auditEvents, pc, job, lockResult, batch, item,
                   thrown, response>>

(* refreshTrialStatusIfExpired on the loaded user; save writes trialStatus. *)
RefreshSave(r) ==
    /\ api[r].pc = "loaded"
    /\ api[r].route = "entitlements"
    /\ LET u == api[r].user
           user == refreshTrialStatusIfExpired(api[r].doc, api[r].now)
       IN  /\ users' = IF user # api[r].doc
                         THEN [users EXCEPT ![u].trialStatus = user.trialStatus]
                         ELSE users
           /\ ReplyTo(r, 200, user.trialStatus)
    /\ UNCHANGED <<request, fn, guards, digest, emails, clock, advances, cronRunLock, companies,
                   snapshots, diffs, insights, auditEvents, pc, job, lockResult, batch, item,
                   thrown, response>>

(* grantPaidAccess on the loaded user; save writes the fields it changed. *)
GrantSave(r) ==
    /\ api[r].pc = "loaded"
    /\ api[r].route = "grant"
    /\ \E priceId \in {"price_pro"} :
          LET u == api[r].user
              user == api[r].doc
          IN  users' = [users EXCEPT
                           ![u].priceId = IF user.priceId # priceId THEN priceId ELSE @,
                           ![u].hasAccess = IF ~user.hasAccess THEN TRUE ELSE @,
                           ![u].trialStatus = IF user.trialStatus = "active" THEN "converted"
                                              ELSE @]
    /\ ReplyTo(r, 200, "granted")
    /\ UNCHANGED <<request, fn, guards, digest, emails, clock, advances, cronRunLock, companies,
                   snapshots, diffs, insights, auditEvents, pc, job, lockResult, batch, item,
                   thrown, response>>

(* revokePaidAccess on the loaded user. *)
RevokeSave(r) ==
    /\ api[r].pc = "loaded"
    /\ api[r].route = "revoke"
    /\ users' = IF api[r].doc.hasAccess THEN [users EXCEPT ![api[r].user].hasAccess = FALSE]
                ELSE users
    /\ ReplyTo(r, 200, "revoked")
    /\ UNCHANGED <<request, fn, guards, digest, emails, clock, advances, cronRunLock, companies,
                   snapshots, diffs, insights, auditEvents, pc, job, lockResult, batch, item,
                   thrown, response>>

(* The reply has been sent; the next request may use the connection. *)
Forget(r) ==
    /\ api[r].pc = "responded"
    /\ api' = [api EXCEPT ![r] = NoCall]
    /\ UNCHANGED <<request, fn, guards, digest, emails, clock, advances, cronRunLock, companies, users,
                   snapshots, diffs, insights, auditEvents, pc, job, lockResult, batch, item,
                   thrown, response>>

(* The account requests of the owners one after the other, each on the    *)
(* connection the one before has left, while time passes and trials run   *)
(* out.                                                                    *)
NextTrial ==
    \/ Advance
    \/ TrialLoad(1)
    \/ TrialSave(1)
    \/ AccessLoad(1)
    \/ RefreshSave(1)
    \/ GrantSave(1)
    \/ RevokeSave(1)
    \/ Forget(1)

SpecTrial == Init /\ [][NextTrial]_vars

(* The owners' account requests, which may overlap. *)
NextAccounts ==
    \/ Advance
    \/ \E r \in Api : TrialLoad(r)
    \/ \E r \in Api : TrialSave(r)
    \/ \E r \in Api : CreateCheck(r)
    \/ \E r \in Api : CreateInsert(r)

SpecAccounts == Init /\ [][NextAccounts]_vars

(* u2 has added a second competitor before the requests arrive. *)
InitCap ==
    /\ clock = 0
    /\ advances = 0
    /\ cronRunLock = [k \in LockKeys |-> NoRecord]
    /\ companies = [c \in 1..(NumComp + 1) |->
                       IF c \in Comp THEN InitCompany(c)
                       ELSE NewCompany("u2", "competitor", "b.example", 0)]
    /\ users = [u \in Users |-> InitUser(u)]
    /\ snapshots = <<>>
    /\ diffs = <<>>
    /\ insights = <<>>
    /\ auditEvents = {}
    /\ pc = [i \in Inv |-> "idle"]
    /\ job = [i \in Inv |-> "crawl"]
    /\ lockResult = [i \in Inv |-> NoLockResult]
    /\ batch = [i \in Inv |-> NoBatch]
    /\ item = [i \in Inv |-> NoItem]
    /\ thrown = [i \in Inv |-> FALSE]
    /\ response = [i \in Inv |-> NoResponse]
    /\ api = [r \in Api |-> NoCall]
    /\ fn = NoFn
    /\ digest = [i \in Inv |-> NoDigest]
    /\ emails = <<>>
    /\ request = [i \in Inv |-> NoRequest]
    /\ InitGuards

SpecCap == InitCap /\ [][NextAccounts]_vars

(* The store after two clean crawl ticks a day apart, between which both *)
(* competitors changed their prices: each owner has one verified diff.   *)
CrawledCompany(c) ==
    [InitCompany(c) EXCEPT
        !.primaryPricingUrl = IF c % 2 = 1 THEN "https://c.example/pricing" ELSE "https://c.example/plans",
        !.latestContentHash = IF c % 2 = 1 THEN "hB" ELSE "hD",
        !.latestConfidence = 78,
        !.nextCrawlAt = 2 * SUCCESS_CRAWL_DELAY_MS,
        !.lastCrawlAt = SUCCESS_CRAWL_DELAY_MS,
        !.lastCrawlStatus = "ok",
        !.updatedAt = SUCCESS_CRAWL_DELAY_MS]

CrawledSnapshot(c, second) ==
    LET url == CrawledCompany(c).primaryPricingUrl
        usd(amount) == [currency |-> "USD", period |-> "month", amount |-> amount]
    IN  [contentHash |-> IF ~second THEN "hI" ELSE CrawledCompany(c).latestContentHash,
         pricingPayload |->
             [sourceUrl |-> url,
              pageTitle |-> NoText, pageDescription |-> NoText, planNames |-> <<>>,
              priceMentions |-> IF ~second THEN <<usd(4900)>>
                                ELSE IF c % 2 = 1 THEN <<usd(1900), usd(4920)>>
                                ELSE <<usd(1900), usd(4900)>>,
              customPricingHints |-> IF second /\ c % 2 = 0 THEN <<ContactSales>> ELSE <<>>],
         confidence |-> IF second THEN 78 ELSE 72,
         isVerified |-> second,
         userId |-> InitCompany(c).userId,
         companyId |-> c,
         capturedAt |-> IF second THEN SUCCESS_CRAWL_DELAY_MS ELSE 0,
         by |-> IF second THEN 2 ELSE 1]

CrawledDiff(c) ==
    [severity |-> "high", verificationState |-> "verified",
     userId |-> InitCompany(c).userId, companyId |-> c, by |-> 2,
     previousSnapshotId |-> c, currentSnapshotId |-> NumComp + c,
     normalizedDiff |->
         [addedHints |-> IF c % 2 = 0 THEN {ContactSales} ELSE {},
          removedHints |-> {},
          priceChanges |->
              {[currency |-> "USD", period |-> "month",
                addedAmounts |-> IF c % 2 = 1 THEN {4920} ELSE {4900},
                removedAmounts |-> {},
                updatedAmounts |-> {[previousAmount |-> 4900, currentAmount |-> 1900,
                                     deltaPercent |-> 6122]}]}],
     detectedAt |-> SUCCESS_CRAWL_DELAY_MS]

CrawledInsight(c) ==
    [severity |-> "high",
     severityGate |-> IF c % 2 = 1 THEN "high_and_medium" ELSE "high_only",
     userId |-> InitCompany(c).userId, companyId |-> c, by |-> 2,
     diffId |-> c, generatedAt |-> SUCCESS_CRAWL_DELAY_MS]

CrawledStore ==
    /\ companies = [c \in Comp |-> CrawledCompany(c)]
    /\ snapshots = [k \in 1..(2 * NumComp) |->
                       IF k <= NumComp THEN CrawledSnapshot(k, FALSE)
                       ELSE CrawledSnapshot(k - NumComp, TRUE)]
    /\ diffs = [c \in Comp |-> CrawledDiff(c)]
    /\ insights = [c \in Comp |-> CrawledInsight(c)]
    /\ auditEvents = {}
    /\ users = [u \in Users |-> InitUser(u)]

(* The digest cron fires after that crawl; the provider may refuse a message, *)
(* the store may fail, and a tick may arrive while a digest is still running.  *)
DigestEnv ==
    [fetches |-> {},
     discoveries |-> {},
     faults |-> {"digest"},
     rawLimits |-> {NoText},
     requests |-> {Request(CRON_SECRET, "secret", NoAuthorization)},
     jobs |-> {"digest"},
     sends |-> BOOLEAN]

InitDigest ==
    /\ clock = SUCCESS_CRAWL_DELAY_MS
    /\ advances = 0
    /\ cronRunLock = [k \in LockKeys |->
                         IF k = CRAWL_CRON_LOCK_KEY
                         THEN [ownerId |-> 2, lockUntil |-> SUCCESS_CRAWL_DELAY_MS,
                               lockedAt |-> SUCCESS_CRAWL_DELAY_MS,
                               lastReleasedAt |-> SUCCESS_CRAWL_DELAY_MS]
                         ELSE NoRecord]
    /\ CrawledStore
    /\ pc = [i \in Inv |-> "idle"]
    /\ job = [i \in Inv |-> "crawl"]
    /\ lockResult = [i \in Inv |-> NoLockResult]
    /\ batch = [i \in Inv |-> NoBatch]
    /\ item = [i \in Inv |-> NoItem]
    /\ thrown = [i \in Inv |-> FALSE]
    /\ response = [i \in Inv |-> NoResponse]
    /\ api = [r \in Api |-> NoCall]
    /\ fn = NoFn
    /\ digest = [i \in Inv |-> NoDigest]
    /\ emails = <<>>
    /\ request = [i \in Inv |-> NoRequest]
    /\ InitGuards

NextDigest ==
    \/ Advance
    \/ \E i \in Inv :
        \/ Start(i, DigestEnv)
        \/ AcquireCreate(i, DigestEnv)
        \/ AcquireFind(i)
        \/ DigestBegin(i, DigestEnv)
        \/ DigestUser(i, DigestEnv)
        \/ DigestMark(i, DigestEnv)
        \/ Release(i)

SpecDigest == InitDigest /\ [][NextDigest]_vars

(* Cron requests of every kind: with and without a configured secret, with *)
(* the header, with an Authorization header of either scheme, with neither. *)
AuthEnv ==
    [fetches |-> FetchOf({"hA"}, {}),
     discoveries |-> {"recommended"},
     faults |-> {},
     rawLimits |-> {NoText},
     requests |-> {Request(cronSecret, xCronSecret, authorization) :
                      cronSecret \in {CRON_SECRET, ""},
                      xCronSecret \in {CRON_SECRET, "wrong", "", NoHeader},
                      authorization \in {NoAuthorization, Bearer(CRON_SECRET), Bearer("wrong"), Bearer(""),
                                         [scheme |-> "bearer", token |-> CRON_SECRET],
                                         [scheme |-> "Basic", token |-> CRON_SECRET]}},
     jobs |-> Jobs]

NextAuth ==
    \/ Advance
    \/ \E i \in Inv : Sequential(i) /\ Start(i, AuthEnv)
    \/ \E i \in Inv : AcquireCreate(i, AuthEnv)
    \/ \E i \in Inv : RunDigest(i, AuthEnv)
    \/ \E i \in Inv : BatchStart(i, AuthEnv)
    \/ \E i \in Inv : Claim(i, AuthEnv)
    \/ \E i \in Inv : ProcessBegin(i, AuthEnv)
    \/ \E i \in Inv : ProcessSnapshotFind(i, AuthEnv)
    \/ \E i \in Inv : ProcessWrite(i, AuthEnv)
    \/ \E i \in Inv : Finalize(i, AuthEnv)
    \/ \E i \in Inv : Release(i)

SpecAuth == Init /\ [][NextAuth]_vars

(* The digest cron keeps calling; the holder of the lock may die.  Time    *)
(* passes whatever the requests do, a request that arrived is served, and *)
(* the scheduler does not stop calling.                                   *)
RecoveryEnv ==
    [fetches |-> {},
     discoveries |-> {},
     faults |-> {},
     rawLimits |-> {NoText},
     requests |-> {Request(CRON_SECRET, "secret", NoAuthorization)},
     jobs |-> {"digest"}]

Serve(i) ==
    \/ Start(i, RecoveryEnv)
    \/ AcquireCreate(i, RecoveryEnv)
    \/ AcquireFind(i)
    \/ RunDigest(i, RecoveryEnv)
    \/ Release(i)
    \/ NextInvocation(i)

NextRecovery ==
    \/ TimePasses(Positions)
    \/ \E i \in Inv : Serve(i)
    \/ \E i \in Inv : Crash(i)

SpecRecovery ==
    /\ Init
    /\ [][NextRecovery]_vars
    /\ WF_vars(TimePasses(Positions))
    /\ \A i \in Inv : WF_vars(Serve(i))

(* The crawl cron keeps calling with limit=1, so one call cannot take all *)
(* that is due; sites answer; every request that arrived is served to    *)
(* its end.                                                              *)
QueueEnv ==
    [fetches |-> FetchOf({"hA"}, {}),
     discoveries |-> {"recommended"},
     faults |-> {},
     rawLimits |-> {<<"1">>},
     requests |-> {Request(CRON_SECRET, "secret", NoAuthorization)},
     jobs |-> {"crawl"}]

ServeCrawl(i) ==
    \/ Start(i, QueueEnv)
    \/ AcquireCreate(i, QueueEnv)
    \/ AcquireFind(i)
    \/ BatchStart(i, QueueEnv)
    \/ Claim(i, QueueEnv)
    \/ ProcessBegin(i, QueueEnv)
    \/ ProcessSnapshotFind(i, QueueEnv)
    \/ ProcessWrite(i, QueueEnv)
    \/ Finalize(i, QueueEnv)
    \/ Release(i)
    \/ NextInvocation(i)

NextQueue ==
    \/ Advance
    \/ \E i \in Inv : ServeCrawl(i)

SpecQueue ==
    /\ Init
    /\ [][NextQueue]_vars
    /\ \A i \in Inv : WF_vars(ServeCrawl(i))

(* One cron tick at a time, each with a limit parameter of its own: none,  *)
(* an empty one, words, zero, a negative number, numbers up to and above   *)
(* the maximum, and a number followed by a letter.                         *)
LimitEnv ==
    [fetches |-> FetchOf({"hA"}, {}),
     discoveries |-> {"recommended"},
     faults |-> {},
     rawLimits |-> {NoText, <<>>, <<"a">>, <<"0">>, <<"-", "5">>, <<"1">>, <<"2">>,
                    <<"2", "0">>, <<"2", "1">>, <<"9", "9">>, <<"5", "a">>},
     requests |-> {Request(CRON_SECRET, "secret", NoAuthorization)},
     jobs |-> {"crawl"}]

NextLimits ==
    \/ Advance
    \/ \E i \in Inv : Sequential(i) /\ Start(i, LimitEnv)
    \/ \E i \in Inv : AcquireCreate(i, LimitEnv)
    \/ \E i \in Inv : BatchStart(i, LimitEnv)
    \/ \E i \in Inv : Claim(i, LimitEnv)
    \/ \E i \in Inv : ProcessBegin(i, LimitEnv)
    \/ \E i \in Inv : ProcessSnapshotFind(i, LimitEnv)
    \/ \E i \in Inv : ProcessWrite(i, LimitEnv)
    \/ \E i \in Inv : Finalize(i, LimitEnv)
    \/ \E i \in Inv : Release(i)

SpecLimits == Init /\ [][NextLimits]_vars

(* One cron tick at a time; the pages change between crawls; the store and *)
(* the libraries may throw at every step of an item before its finally    *)
(* block, with short or long messages.                                     *)
ItemFaultEnv ==
    [fetches |-> FetchOf({"hA", "hB"}, {}),
     discoveries |-> {"recommended", "throws"},
     faults |-> {"user", "snapshot", "diff", "insight", "verbose"},
     rawLimits |-> {NoText},
     requests |-> {Request(CRON_SECRET, "secret", NoAuthorization)},
     jobs |-> {"crawl"}]

NextItemFaults ==
    \/ Advance
    \/ \E i \in Inv : Sequential(i) /\ Start(i, ItemFaultEnv)
    \/ \E i \in Inv : AcquireCreate(i, ItemFaultEnv)
    \/ \E i \in Inv : BatchStart(i, ItemFaultEnv)
    \/ \E i \in Inv : Claim(i, ItemFaultEnv)
    \/ \E i \in Inv : ProcessBegin(i, ItemFaultEnv)
    \/ \E i \in Inv : ProcessSnapshotFind(i, ItemFaultEnv)
    \/ \E i \in Inv : ProcessWrite(i, ItemFaultEnv)
    \/ \E i \in Inv : Finalize(i, ItemFaultEnv)
    \/ \E i \in Inv : Release(i)

SpecItemFaults == Init /\ [][NextItemFaults]_vars

(* One cron tick at a time; a site answers with its pricing page or with a *)
(* bot-protection page that mentions a price.                              *)
BlockedEnv ==
    [fetches |-> FetchOf({"hA", "hE"}, {}),
     discoveries |-> {"recommended"},
     faults |-> {},
     rawLimits |-> {NoText},
     requests |-> {Request(CRON_SECRET, "secret", NoAuthorization)},
     jobs |-> {"crawl"}]

NextBlocked ==
    \/ Advance
    \/ \E i \in Inv : Sequential(i) /\ Start(i, BlockedEnv)
    \/ \E i \in Inv : AcquireCreate(i, BlockedEnv)
    \/ \E i \in Inv : BatchStart(i, BlockedEnv)
    \/ \E i \in Inv : Claim(i, BlockedEnv)
    \/ \E i \in Inv : ProcessBegin(i, BlockedEnv)
    \/ \E i \in Inv : ProcessSnapshotFind(i, BlockedEnv)
    \/ \E i \in Inv : ProcessWrite(i, BlockedEnv)
    \/ \E i \in Inv : Finalize(i, BlockedEnv)
    \/ \E i \in Inv : Release(i)

SpecBlocked == Init /\ [][NextBlocked]_vars

InitFunctions ==
    /\ clock = 0
    /\ advances = 0
    /\ cronRunLock = [k \in LockKeys |-> NoRecord]
    /\ companies = [c \in Comp |-> InitCompany(c)]
    /\ users = [u \in Users |-> InitUser(u)]
    /\ snapshots = <<>>
    /\ diffs = <<>>
    /\ insights = <<>>
    /\ auditEvents = {}
    /\ pc = [i \in Inv |-> "idle"]
    /\ job = [i \in Inv |-> "crawl"]
    /\ lockResult = [i \in Inv |-> NoLockResult]
    /\ batch = [i \in Inv |-> NoBatch]
    /\ item = [i \in Inv |-> NoItem]
    /\ thrown = [i \in Inv |-> FALSE]
    /\ response = [i \in Inv |-> NoResponse]
    /\ api = [r \in Api |-> NoCall]
    /\ fn \in FnInputs(MaxListLen)
    /\ digest = [i \in Inv |-> NoDigest]
    /\ emails = <<>>
    /\ request = [i \in Inv |-> NoRequest]
    /\ InitGuards

NextFunctions ==
    \/ ApplyResolveEntitlements
    \/ ApplyCanonicalizePricingPayload
    \/ ApplyMergePricingUrlCandidates
    \/ ApplyCompaniesPost
    \/ ApplyDiscoverPricing
    \/ ApplyProcessCompanyDiscovery
    \/ ApplyPrimaryPricingPatch

SpecFunctions == InitFunctions /\ [][NextFunctions]_vars

InitDiffs ==
    /\ clock = 0
    /\ advances = 0
    /\ cronRunLock = [k \in LockKeys |-> NoRecord]
    /\ companies = [c \in Comp |-> InitCompany(c)]
    /\ users = [u \in Users |-> InitUser(u)]
    /\ snapshots = <<>>
    /\ diffs = <<>>
    /\ insights = <<>>
    /\ auditEvents = {}
    /\ pc = [i \in Inv |-> "idle"]
    /\ job = [i \in Inv |-> "crawl"]
    /\ lockResult = [i \in Inv |-> NoLockResult]
    /\ batch = [i \in Inv |-> NoBatch]
    /\ item = [i \in Inv |-> NoItem]
    /\ thrown = [i \in Inv |-> FALSE]
    /\ response = [i \in Inv |-> NoResponse]
    /\ api = [r \in Api |-> NoCall]
    /\ fn \in DiffFnInputs
    /\ digest = [i \in Inv |-> NoDigest]
    /\ emails = <<>>
    /\ request = [i \in Inv |-> NoRequest]
    /\ InitGuards

NextDiffs == ApplyGeneratePricingDiff

SpecDiffs == InitDiffs /\ [][NextDiffs]_vars

TypeOK == clock >= 0

(***************************************************************************)
(* Properties of the crawl scheduler.                                      *)
(***************************************************************************)
(* The companies a runCrawlBatch call has claimed and not yet finalized. *)
Unfinalized(i) ==
    {batch[i].claimedCompanies[k].id : k \in batch[i].index..Len(batch[i].claimedCompanies)}

(* The lease written by claimCompanies runs out CRAWL_LEASE_MS after startedAt. *)
HoldsLease(i, c) ==
    /\ c \in Unfinalized(i)
    /\ batch[i].startedAt + CRAWL_LEASE_MS > clock

LeaseHolders(c) == {i \in Inv : HoldsLease(i, c)}

(* C1: at any instant at most one invocation holds a non-expired lease on a *)
(* company, and a claim step hands a company out only when the stored lease *)
(* is absent or has run out at the claimer's now.                           *)
C1_LeaseMutualExclusion ==
    /\ [](\A c \in Comp : Cardinality(LeaseHolders(c)) <= 1)
    /\ [][\A i \in Inv : \A c \in Comp :
            (c \in Unfinalized(i)' /\ c \notin Unfinalized(i) /\ pc[i] = "claim")
                => /\ companies[c].crawlLeaseUntil = Absent
                      \/ companies[c].crawlLeaseUntil <= batch[i].startedAt
                   /\ companies'[c].crawlLeaseUntil = batch[i].startedAt + CRAWL_LEASE_MS]_vars

(* Two batches run at once; one holds the lease on c and the other finished *)
(* its claim loop without c.                                               *)
C1_Witness ==
    \E i, j \in Inv : \E c \in Comp :
        /\ i # j
        /\ HoldsLease(i, c)
        /\ pc[j] = "process"
        /\ batch[j].startedAt < batch[i].startedAt + CRAWL_LEASE_MS
        /\ batch[j].startedAt >= batch[i].startedAt
        /\ \A k \in 1..Len(batch[j].claimedCompanies) : batch[j].claimedCompanies[k].id # c


(* A request is executing its job between the acquisition and the reply. *)
Executing(i) ==
    pc[i] \in {"run", "claim", "process", "snapshot_find", "snapshot_create", "finalize", "release"}

(* A step of acquireCronLock by request i, and the now the call computed. *)
AcquireStep(i) == pc[i] \in {"idle", "acquire_create", "acquire_find"} /\ pc'[i] # pc[i]
CallerNow(i) == IF pc[i] = "idle" THEN clock ELSE lockResult[i].now

LockHolders(key) ==
    {i \in Inv : /\ Executing(i)
                 /\ lockResult[i].acquired
                 /\ LockKey(i) = key
                 /\ lockResult[i].lockUntil > clock}

(* C2: acquireCronLock answers acquired:true only when no record exists or  *)
(* its lockUntil <= now; on a held, unexpired record it answers             *)
(* acquired:false and leaves the record as it is; at most one request holds *)
(* an unexpired lock on a key, and a refused caller is refused in favour of *)
(* an owner that did acquire.                                               *)
C2_LockMutualExclusion ==
    /\ [](\A key \in LockKeys : Cardinality(LockHolders(key)) <= 1)
    /\ [](\A i \in Inv : response[i].status = 202 =>
            \E j \in Inv \ {i} : /\ lockResult[j].acquired
                                  /\ job[j] = job[i]
                                  /\ lockResult[i].ownerId = j)
    /\ [][\A i \in Inv :
            LET record == cronRunLock[LockKey(i)']
            IN  /\ (AcquireStep(i) /\ lockResult'[i].acquired)
                      => (record = NoRecord \/ record.lockUntil <= CallerNow(i))
                /\ (AcquireStep(i) /\ record # NoRecord /\ record.lockUntil > CallerNow(i))
                      => (cronRunLock' = cronRunLock /\ ~lockResult'[i].acquired)]_vars

(* Two requests called acquireCronLock on the same key at the same instant: *)
(* one holds the lock, the other was answered 202.                          *)
C2_Witness ==
    \E i, j \in Inv :
        /\ i # j
        /\ job[i] = job[j]
        /\ i \in LockHolders(LockKey(i))
        /\ response[j].status = 202
        /\ lockResult[j].now = lockResult[i].now
        /\ lockResult[j].ownerId = i


(* The requests that acquired cron:crawl and are inside runCrawlBatch. *)
InRunCrawlBatch ==
    {i \in Inv : /\ job[i] = "crawl"
                 /\ lockResult[i].acquired
                 /\ pc[i] \in {"run", "claim", "process", "snapshot_find", "snapshot_create",
                                "finalize"}}

(* C3: at every instant at most one request that acquired cron:crawl is     *)
(* still executing runCrawlBatch, whatever the duration of a batch.         *)
C3_NoOverlap == Cardinality(InRunCrawlBatch) <= 1


(* The step in which request i calls releaseCronLock. *)
ReleaseStep(i) == pc[i] = "release" /\ pc'[i] = "responded"

(* C4: releaseCronLock(key, ownerId) sets lockUntil and lastReleasedAt to   *)
(* now when the stored ownerId is the caller's, and otherwise leaves every  *)
(* lock record as it is: a late release by a former holder does not touch  *)
(* the record of the request that re-acquired the lock.                     *)
C4_ReleaseFenced ==
    [][\A i \in Inv :
        ReleaseStep(i) =>
            LET key == LockKey(i)
            IN  IF cronRunLock[key].ownerId = lockResult[i].ownerId
                THEN /\ cronRunLock'[key] = [cronRunLock[key] EXCEPT !.lockUntil = clock,
                                                                      !.lastReleasedAt = clock]
                     /\ \A other \in LockKeys \ {key} : cronRunLock'[other] = cronRunLock[other]
                ELSE cronRunLock' = cronRunLock]_vars

(* A former holder replied after its TTL ran out and another request had    *)
(* re-acquired the lock: the new holder's record is intact and unexpired.   *)
C4_Witness ==
    \E i, j \in Inv :
        /\ i # j
        /\ pc[i] = "responded"
        /\ lockResult[i].acquired
        /\ response[i].status \in {200, 500}
        /\ job[j] = job[i]
        /\ Executing(j)
        /\ lockResult[j].acquired
        /\ lockResult[j].now >= lockResult[i].lockUntil
        /\ cronRunLock[LockKey(j)].ownerId = j
        /\ cronRunLock[LockKey(j)].lockUntil = lockResult[j].lockUntil
        /\ cronRunLock[LockKey(j)].lockUntil > clock
        /\ cronRunLock[LockKey(j)].lastReleasedAt = Absent


WrittenBy(i) ==
    {k \in 1..Len(snapshots) : snapshots[k].by = i}
    \cup {k \in 1..Len(diffs) : diffs[k].by = i}
    \cup {k \in 1..Len(insights) : insights[k].by = i}
    \cup {e \in auditEvents : e.by = i}

(* C6: a request that does not acquire the lock is answered 202 with        *)
(* skipped, reason lock_active, the retryAfterSeconds and the lockUntil     *)
(* that acquireCronLock returned; it never enters the job, claims no lease  *)
(* and writes no Company, Snapshot, Diff or Insight.                        *)
C6_SkippedWhenLocked ==
    /\ [](\A i \in Inv :
            /\ ~lockResult[i].acquired
                  => /\ ~Executing(i)
                     /\ batch[i] = NoBatch
                     /\ item[i] = NoItem
                     /\ WrittenBy(i) = {}
            /\ (pc[i] = "responded" /\ lockResult[i].ownerId \in Inv \ {i})
                  => response[i].status = 202
            /\ response[i].status = 202
                  => /\ ~lockResult[i].acquired
                     /\ response[i].skipped
                     /\ response[i].reason = "lock_active"
                     /\ response[i].retryAfterSeconds
                            = Max(lockResult[i].lockUntil - lockResult[i].now, 0) * 60
                     /\ response[i].lockUntil = lockResult[i].lockUntil)
    /\ [][\A i \in Inv :
            (AcquireStep(i) /\ ~lockResult'[i].acquired)
                => UNCHANGED <<companies, snapshots, diffs, insights, auditEvents>>]_vars

(* A crawl request was answered 202 with time left on the lock while the    *)
(* holder is in the middle of a batch with claimed companies.               *)
C6_Witness ==
    \E i, j \in Inv :
        /\ job[i] = "crawl"
        /\ response[i].status = 202
        /\ response[i].retryAfterSeconds > 0
        /\ lockResult[i].ownerId = j
        /\ pc[j] \in {"process", "snapshot_find", "snapshot_create", "finalize"}
        /\ Unfinalized(j) # {}


(* C7: every company claimed by a batch has passed through Finalize by the  *)
(* time the request that ran the batch replies, whatever happened to it or  *)
(* to the items before it.                                                  *)
C7_AllClaimedFinalized ==
    \A i \in Inv : pc[i] = "responded" => Unfinalized(i) = {}

(* The Company.updateOne of the item processCompany was finalizing threw. *)
FinalizeThrew(i) == thrown[i] /\ item[i].company # 0

(* C8: a failure does not cascade: when the Finalize of a claimed item      *)
(* fails, every claimed item after it is still processed and finalized, so  *)
(* none is left over when the request replies.                              *)
C8_NoCascade ==
    \A i \in Inv :
        (pc[i] = "responded" /\ FinalizeThrew(i))
            => batch[i].index >= Len(batch[i].claimedCompanies)


(* The item request i is working on was extracted with the hash that the    *)
(* Company document has stored as latestContentHash.                        *)
SameHashAsStored(i) ==
    /\ item[i].company # 0
    /\ item[i].extraction.status = "ok"
    /\ item[i].extraction.contentHash = companies[item[i].company].latestContentHash

(* C9: when an extraction succeeds with the contentHash the company has     *)
(* stored as latestContentHash, the runner creates no Snapshot, Diff or     *)
(* Insight for the item, and Finalize stores lastCrawlStatus ok and         *)
(* nextCrawlAt = now + 24 h.                                                *)
C9_HashGate ==
    [][\A i \in Inv :
        /\ (pc[i] = "snapshot_create" /\ SameHashAsStored(i))
              => UNCHANGED <<snapshots, diffs, insights>>
        /\ (pc[i] = "finalize" /\ SameHashAsStored(i) /\ pc'[i] # "finalize" /\ ~thrown'[i])
              => /\ companies'[item[i].company].lastCrawlStatus = "ok"
                 /\ companies'[item[i].company].nextCrawlAt = item[i].now + 24 * 60]_vars


(* The change set of a Diff record is empty. *)
EmptyChangeSet(normalizedDiff) ==
    /\ \A change \in normalizedDiff.priceChanges :
          /\ change.addedAmounts = {}
          /\ change.removedAmounts = {}
          /\ change.updatedAmounts = {}
    /\ normalizedDiff.addedHints = {}
    /\ normalizedDiff.removedHints = {}

(* The amounts of a snapshot's payload, bucket by bucket, and its hints. *)
Offer(k) ==
    [buckets |-> toBucketMap(toNormalizedPayload(snapshots[k].pricingPayload)),
     hints |-> snapshots[k].pricingPayload.customPricingHints]

(* C10: every Diff record has a non-empty change set, and none is written   *)
(* between two snapshots that offer the same amounts and the same hints.    *)
C10_DiffsAreChanges ==
    \A d \in 1..Len(diffs) :
        /\ ~EmptyChangeSet(diffs[d].normalizedDiff)
        /\ Offer(diffs[d].previousSnapshotId) # Offer(diffs[d].currentSnapshotId)

DiffsInto(k) == {d \in 1..Len(diffs) : diffs[d].currentSnapshotId = k}

(* A re-crawl found a page whose only difference is a price moved by less  *)
(* than the threshold and wrote a snapshot without a Diff, and a re-crawl  *)
(* wrote a Diff whose only change is a custom-pricing hint.                *)
C10_Witness ==
    /\ \E k \in 1..Len(snapshots) :
          /\ snapshots[k].contentHash = "hB"
          /\ \E o \in 1..(k - 1) : /\ snapshots[o].companyId = snapshots[k].companyId
                                     /\ snapshots[o].contentHash = "hA"
          /\ DiffsInto(k) = {}
    /\ \E d \in 1..Len(diffs) :
          /\ diffs[d].normalizedDiff.priceChanges = {}
          /\ diffs[d].normalizedDiff.addedHints # {}

(***************************************************************************)
(* Properties of the insight gate and of verification.                     *)
(***************************************************************************)
(* The owner of the company an insight is about. *)
OwnerOf(insight) == users[companies[insight.companyId].userId]

(* C11: every Insight refers to a Diff whose severity the owner's          *)
(* entitlements, resolved at the insight's generatedAt, allow: the owner   *)
(* has access, a high_only gate admits high alone, a high_and_medium gate  *)
(* admits high and medium, and no insight is about a low-severity diff.    *)
C11_InsightsGated ==
    \A k \in 1..Len(insights) :
        LET insight == insights[k]
            diff == diffs[insight.diffId]
            entitlements == resolveEntitlements(OwnerOf(insight), insight.generatedAt)
        IN  /\ entitlements.hasAccess
            /\ insight.severityGate = entitlements.insightSeverityGate
            /\ entitlements.insightSeverityGate \in {"high_only", "high_and_medium"}
            /\ entitlements.insightSeverityGate = "high_only" => diff.severity = "high"
            /\ entitlements.insightSeverityGate = "high_and_medium"
                  => diff.severity \in {"high", "medium"}
            /\ diff.severity # "low"

(* The diffs no insight refers to. *)
DiffsWithoutInsight ==
    {d \in 1..Len(diffs) : \A k \in 1..Len(insights) : insights[k].diffId # d}

(* An insight was written for one owner, and the gate turned a medium diff *)
(* down for an owner whose gate is high_only.                              *)
C11_Witness ==
    /\ insights # <<>>
    /\ \E d \in DiffsWithoutInsight :
          /\ diffs[d].severity = "medium"
          /\ resolveEntitlements(users[diffs[d].userId], diffs[d].detectedAt).insightSeverityGate
                = "high_only"

(* C12: a Snapshot is verified exactly when its confidence is at least     *)
(* 0.75 and its canonical pricing payload holds a price mention, and a     *)
(* Diff is verified exactly when its current Snapshot is.                  *)
C12_VerifiedIff ==
    /\ \A k \in 1..Len(snapshots) :
          snapshots[k].isVerified
             <=> /\ snapshots[k].confidence >= 75
                 /\ Len(canonicalizePricingPayload(snapshots[k].pricingPayload).priceMentions) > 0
    /\ \A d \in 1..Len(diffs) :
          /\ diffs[d].verificationState \in {"verified", "unverified"}
          /\ diffs[d].verificationState = "verified"
                <=> snapshots[diffs[d].currentSnapshotId].isVerified

(* A verified diff and an unverified one, the latter on a snapshot that    *)
(* holds a price mention below the confidence threshold.                   *)
C12_Witness ==
    /\ \E d \in 1..Len(diffs) : diffs[d].verificationState = "verified"
    /\ \E d \in 1..Len(diffs) :
          /\ diffs[d].verificationState = "unverified"
          /\ snapshots[diffs[d].currentSnapshotId].pricingPayload.priceMentions # <<>>

(***************************************************************************)
(* Properties of failure handling.                                         *)
(***************************************************************************)
(* The companies whose last crawl ended with the given error text. *)
LastCrawlFailedWith(message) ==
    {c \in Comp : companies[c].lastCrawlAt # Absent /\ companies[c].lastCrawlError = message}

(* C13: a company whose pricing fetch timed out is finalized with          *)
(* lastCrawlStatus = error and is due again 6 hours after the crawl.       *)
C13_TimeoutIsError ==
    \A c \in LastCrawlFailedWith("Request timed out") :
        /\ companies[c].lastCrawlStatus = "error"
        /\ companies[c].nextCrawlAt = companies[c].lastCrawlAt + 360

EarlierSnapshots(c, k) == {o \in 1..(k - 1) : snapshots[o].companyId = c}

(* C15: a Diff links its current snapshot to the snapshot of the same      *)
(* company with the greatest capturedAt among those stored before it, and  *)
(* between an item's read of the previous snapshot and its write of the    *)
(* current one no other snapshot of the company is written.                *)
C15_ConsecutiveSnapshots ==
    /\ \A d \in 1..Len(diffs) :
          LET earlier == EarlierSnapshots(diffs[d].companyId, diffs[d].currentSnapshotId)
          IN  /\ diffs[d].previousSnapshotId \in earlier
              /\ \A o \in earlier :
                    snapshots[o].capturedAt <= snapshots[diffs[d].previousSnapshotId].capturedAt
    /\ \A i \in Inv :
          pc[i] = "snapshot_create" =>
              IF LatestSnapshots(item[i].company) = {}
              THEN item[i].previousSnapshot = 0
              ELSE item[i].previousSnapshot \in LatestSnapshots(item[i].company)

(***************************************************************************)
(* Properties of the interactive company routes.                           *)
(***************************************************************************)
(* Request r passes from its loaded document to its reply in this step. *)
SaveStep(r, routes) ==
    /\ api[r].pc = "loaded"
    /\ api[r].route \in routes
    /\ api'[r].pc = "responded"

(* The company's lease is running at the current instant. *)
LeaseActive(c) ==
    /\ companies[c].crawlLeaseUntil # Absent
    /\ companies[c].crawlLeaseUntil > clock

(* C16: a write of crawl-now or retry-crawl leaves every lease that is     *)
(* active when the write is applied as it is.                              *)
C16_ActiveLeaseKept ==
    [][\A r \in Api : SaveStep(r, {"crawl-now", "retry-crawl"}) =>
          \A c \in Comp :
              LeaseActive(c) => companies'[c].crawlLeaseUntil = companies[c].crawlLeaseUntil]_vars

(* C17: a crawl-now or retry-crawl request that found an active lease on   *)
(* the company is answered 409, never 200.                                 *)
C17_ActiveLeaseConflicts ==
    \A r \in Api :
        (/\ api[r].pc = "responded"
         /\ api[r].route \in {"crawl-now", "retry-crawl"}
         /\ api[r].reason = "active") => api[r].status = 409

(* Request i applies the finalizing write of an item in this step. *)
FinalizeStep(i) ==
    /\ pc[i] = "finalize"
    /\ companies'[item[i].company] # companies[item[i].company]

(* C18: the finalizing write of an item leaves a primaryPricingUrl that is *)
(* present on the stored company as it is.                                 *)
C18_PrimaryKept ==
    [][\A i \in Inv : FinalizeStep(i) =>
          LET c == item[i].company
          IN  companies[c].primaryPricingUrl # NoUrl
                 => companies'[c].primaryPricingUrl = companies[c].primaryPricingUrl]_vars

(***************************************************************************)
(* Properties of the account routes.                                       *)
(***************************************************************************)
(* The trial-start requests of user u that were answered with a status. *)
TrialReplies(u, status) ==
    {r \in Api : /\ api[r].pc = "responded"
                 /\ api[r].route = "trial-start"
                 /\ api[r].user = u
                 /\ api[r].status = status}

(* C19: of the /trial/start calls of one user at most one is answered 200  *)
(* (started); a call that stores the dates of a trial finds no trial       *)
(* stored, so the dates are written once.                                  *)
C19_TrialStartedOnce ==
    \A u \in Users : Cardinality(TrialReplies(u, 200)) <= 1

(* C20: no user owns two companies of type self, and no user owns two      *)
(* companies with the same type and domain.                                *)
C20_CompaniesUnique ==
    \A a, b \in DOMAIN companies :
        (a # b /\ companies[a].userId = companies[b].userId) =>
            /\ ~(companies[a].type = "self" /\ companies[b].type = "self")
            /\ ~(companies[a].type = companies[b].type /\ companies[a].domain = companies[b].domain)

(* Request r inserts a competitor in this step. *)
InsertStep(r) ==
    /\ api[r].pc = "checked"
    /\ api[r].type = "competitor"
    /\ api'[r].pc = "responded"

(* C21: once a POST /companies has inserted a competitor, its owner holds  *)
(* no more competitors than the competitorLimit of the entitlements the    *)
(* request resolved; a refused request is answered 403 and inserts nothing.*)
C21_CompetitorCap ==
    [][\A r \in Api : InsertStep(r) =>
          LET u == api[r].user
              entitlements == resolveEntitlements(
                                  refreshTrialStatusIfExpired(users[u], api[r].now), api[r].now)
          IN  Cardinality(CompaniesOf(u, {"competitor"}, StoredDomains)')
                 <= entitlements.competitorLimit]_vars

(***************************************************************************)
(* Properties of the pure functions.                                       *)
(***************************************************************************)
Applied(name) == fn.name = name /\ fn.done

(* C22: resolveEntitlements decides three ways.  A user with hasAccess is  *)
(* paid whatever the trial status; otherwise an active trial that ends     *)
(* after now gives accessSource trial on the trial plan tier without the   *)
(* weekly digest; otherwise accessSource none, no access, competitorLimit  *)
(* 0, no severity gate and no allowed severity.                            *)
C22_ThreeWay ==
    Applied("resolveEntitlements") =>
        LET user == fn.input.user
            now == fn.input.now
            entitlements == fn.output
            onTrial == /\ user.trialStatus = "active"
                       /\ user.trialEndsAt # Absent
                       /\ user.trialEndsAt > now
        IN  IF user.hasAccess
            THEN /\ entitlements.hasAccess
                 /\ entitlements.accessSource = "paid"
            ELSE IF onTrial
            THEN /\ entitlements.hasAccess
                 /\ entitlements.accessSource = "trial"
                 /\ entitlements.planTier = "starter"
                 /\ ~entitlements.canReceiveWeeklyDigest
            ELSE /\ ~entitlements.hasAccess
                 /\ entitlements.accessSource = "none"
                 /\ entitlements.competitorLimit = 0
                 /\ entitlements.insightSeverityGate = "none"
                 /\ entitlements.allowedInsightSeverities = {}

(* The function was applied to a user whose trial ends at the very instant *)
(* of the call: the trial no longer counts.                                *)
C22_Witness ==
    /\ Applied("resolveEntitlements")
    /\ ~fn.input.user.hasAccess
    /\ fn.input.user.trialStatus = "active"
    /\ fn.input.user.trialEndsAt = fn.input.now
    /\ fn.output.accessSource = "none"

(***************************************************************************)
(* Properties of the weekly digest.                                        *)
(***************************************************************************)
(* C23: a user is mailed at most one digest per lookback window, and only a *)
(* user who can receive the weekly digest at the now of the run (never one  *)
(* on a trial or without access); lastDigestSentAt only ever holds the now  *)
(* of a run that dispatched a message to that user.                         *)
C23_DigestOncePerWindow ==
    /\ \A a, b \in DOMAIN emails :
           (a < b /\ emails[a].userId = emails[b].userId)
               => emails[b].now - emails[a].now > DIGEST_LOOKBACK_MS
    /\ \A a \in DOMAIN emails :
           canReceiveWeeklyDigest(resolveEntitlements(users[emails[a].userId], emails[a].now))
    /\ \A u \in Users :
           users[u].lastDigestSentAt # Absent
               => \E a \in DOMAIN emails : /\ emails[a].userId = u
                                           /\ emails[a].now = users[u].lastDigestSentAt

(***************************************************************************)
(* Properties of the cron entrypoints.                                     *)
(***************************************************************************)
(* The request shows the configured secret neither in x-cron-secret nor as *)
(* a Bearer token, or no secret is configured.                             *)
FailsAuth(req) ==
    \/ req.cronSecret = ""
    \/ /\ req.xCronSecret # req.cronSecret
       /\ \/ req.authorization = NoAuthorization
          \/ req.authorization.scheme \notin {"Bearer", "bearer"}
          \/ req.authorization.token # req.cronSecret

(* C24: a cron request that fails authentication is answered 401 by the    *)
(* step that receives it, and that step leaves the locks and the companies *)
(* as they were; the request never holds a lock result or a batch.         *)
C24_AuthBeforeEffects ==
    /\ [](\A i \in Inv :
            (pc[i] # "idle" /\ FailsAuth(request[i]))
                => /\ pc[i] = "responded"
                   /\ response[i].status = 401
                   /\ lockResult[i] = NoLockResult
                   /\ batch[i] = NoBatch)
    /\ [][\A i \in Inv :
            (pc[i] = "idle" /\ pc'[i] # "idle" /\ FailsAuth(request'[i]))
                => /\ cronRunLock' = cronRunLock
                   /\ companies' = companies]_vars

(* A request with a wrong header and a wrong token was refused, one without *)
(* a configured secret was refused, and an authorized request ran a batch.  *)
C24_Witness ==
    \E i, j \in Inv :
        /\ response[i].status = 401
        /\ request[i].xCronSecret = "wrong"
        /\ request[i].authorization = Bearer("wrong")
        /\ response[j].status = 200
        /\ request[j].xCronSecret = NoHeader
        /\ request[j].authorization = Bearer(CRON_SECRET)
        /\ batch[j].claimedCompanies # <<>>

(***************************************************************************)
(* Properties of the normalizer.                                           *)
(***************************************************************************)
(* C25: canonicalizing a canonicalized payload changes nothing, and the    *)
(* price mentions of a canonicalized payload are unique by (currency,      *)
(* period, amount) and sorted by currency, period, amount.                 *)
C25_CanonicalizeIdempotent ==
    Applied("canonicalizePricingPayload")
        => LET prices == fn.output.priceMentions
           IN  /\ canonicalizePricingPayload(fn.output) = fn.output
               /\ \A a, b \in DOMAIN prices : a < b => prices[a] # prices[b]
               /\ \A a, b \in DOMAIN prices : a < b => PriceBefore(prices[a], prices[b])

(***************************************************************************)
(* Properties of pricing URL discovery.                                    *)
(***************************************************************************)
(* The candidates of both lists that normalize to the given URL. *)
Spellings(in, url) == {c \in Range(in.a) \cup Range(in.b) : normalizeUrl(c.url) = url}

(* C26: merging A with B gives what merging B with A gives; the result has *)
(* one entry per normalized URL, with the greatest clamped confidence seen *)
(* for it and selectedByUser if any spelling had it, ordered by confidence *)
(* descending and then by URL ascending.                                   *)
C26_MergeCommutes ==
    Applied("mergePricingUrlCandidates")
        => LET merged == fn.output
           IN  /\ merged = mergePricingUrlCandidates(<<fn.input.b, fn.input.a>>)
               /\ \A k, l \in DOMAIN merged : k < l => merged[k].url # merged[l].url
               /\ {merged[k].url : k \in DOMAIN merged}
                      = {normalizeUrl(c.url) : c \in Range(fn.input.a) \cup Range(fn.input.b)}
                            \ {InvalidUrl}
               /\ \A k \in DOMAIN merged :
                      LET seen == Spellings(fn.input, merged[k].url)
                      IN  /\ \E c \in seen : merged[k].confidence = clampConfidence(c.confidence)
                          /\ \A c \in seen : merged[k].confidence >= clampConfidence(c.confidence)
                          /\ merged[k].selectedByUser = (\E c \in seen : c.selectedByUser)
               /\ \A k, l \in DOMAIN merged :
                      k < l => \/ merged[k].confidence > merged[l].confidence
                               \/ /\ merged[k].confidence = merged[l].confidence
                                  /\ TokensBefore(UrlTokens(merged[k].url), UrlTokens(merged[l].url))

(* Two lists that spell one page differently, with different confidences *)
(* and flags, merged into one entry beside another page.                 *)
C26_Witness ==
    /\ Applied("mergePricingUrlCandidates")
    /\ Len(fn.output) = 2
    /\ \E c \in Range(fn.input.a), d \in Range(fn.input.b) :
           /\ c.url # d.url
           /\ normalizeUrl(c.url) = normalizeUrl(d.url)
           /\ c.confidence < d.confidence
           /\ c.selectedByUser /\ ~d.selectedByUser
           /\ \E k \in DOMAIN fn.output :
                  /\ fn.output[k].url = normalizeUrl(c.url)
                  /\ fn.output[k].confidence = clampConfidence(d.confidence)
                  /\ fn.output[k].selectedByUser

(***************************************************************************)
(* Properties of lock recovery.                                            *)
(***************************************************************************)
(* The record of the lock names a holder whose process has died. *)
Abandoned(i) ==
    /\ pc[i] = "crashed"
    /\ cronRunLock[LockKey(i)] # NoRecord
    /\ cronRunLock[LockKey(i)].ownerId = i

(* C27: an acquire call made when the stored lockUntil is not after its   *)
(* now takes the lock, and a lock abandoned by a dead holder is acquired  *)
(* by a later invocation.                                                 *)
C27_LockRecovered ==
    /\ [][\A i \in Inv :
            (/\ pc[i] = "idle" /\ pc'[i] # "idle"
             /\ cronRunLock[LockKey(i)'] # NoRecord
             /\ cronRunLock[LockKey(i)'].lockUntil <= clock)
                => /\ pc'[i] = "run"
                   /\ lockResult'[i].acquired
                   /\ cronRunLock'[LockKey(i)'].ownerId = i
                   /\ cronRunLock'[LockKey(i)'].lockUntil = clock + LockTtl(i)']_vars
    /\ \A i \in Inv : Abandoned(i) ~> ~Abandoned(i)

(* A holder died with the lock, and another invocation holds it afterwards. *)
C27_Witness ==
    \E i, j \in Inv :
        /\ pc[i] = "crashed"
        /\ lockResult[i].acquired
        /\ pc[j] = "run"
        /\ cronRunLock[LockKey(j)].ownerId = j
        /\ cronRunLock[LockKey(j)].lockedAt >= lockResult[i].lockUntil

(***************************************************************************)
(* Properties of the crawl queue.                                          *)
(***************************************************************************)
(* The competitor is due at the given instant and no lease on it is active. *)
Claimable(c, now) ==
    /\ companies[c].type = "competitor"
    /\ companies[c].nextCrawlAt <= now
    /\ (companies[c].crawlLeaseUntil = Absent \/ companies[c].crawlLeaseUntil <= now)

(* The request takes the company into its batch in this step. *)
Claims(i, c) ==
    /\ pc[i] = "claim"
    /\ Len(batch'[i].claimedCompanies) = Len(batch[i].claimedCompanies) + 1
    /\ batch'[i].claimedCompanies[Len(batch'[i].claimedCompanies)].id = c

(* C28: a claim takes, of the companies it could take, one with the oldest *)
(* nextCrawlAt and among those one least recently updated; and with the    *)
(* cron calling again and again, a competitor that is due and in no batch  *)
(* is taken into a batch.                                                  *)
C28_NoStarvation ==
    /\ [][\A i \in Inv : \A c \in Comp :
            Claims(i, c)
                => \A o \in Comp :
                      Claimable(o, batch[i].startedAt)
                          => \/ companies[c].nextCrawlAt < companies[o].nextCrawlAt
                             \/ /\ companies[c].nextCrawlAt = companies[o].nextCrawlAt
                                /\ companies[c].updatedAt <= companies[o].updatedAt]_vars
    /\ \A c \in Comp :
           (Claimable(c, clock) /\ \A i \in Inv : c \notin Unfinalized(i))
               ~> (\E i \in Inv : c \in Unfinalized(i))

(* A call with room for one company passed over a company that had been *)
(* crawled and was due again, and took the one that had waited longer.  *)
C28_Witness ==
    \E i \in Inv : \E c, o \in Comp :
        /\ pc[i] = "process"
        /\ batch[i].limit = 1
        /\ batch[i].claimedCompanies[1].id = c
        /\ companies[o].lastCrawlAt # Absent
        /\ companies[o].nextCrawlAt <= batch[i].startedAt
        /\ companies[c].nextCrawlAt < companies[o].nextCrawlAt
        /\ companies[o].crawlLeaseUntil = Absent

(* The request is inside runCrawlBatch. *)
InBatch(i) ==
    /\ job[i] = "crawl"
    /\ pc[i] \in {"claim", "process", "snapshot_find", "snapshot_create", "finalize"}

TwoPricesWithSignals(page) ==
    /\ Len(page.priceMentions) = 2
    /\ Range(page.priceMentions) = {Usd(1900), Usd(4900)}
    /\ page.pricingSignals

(* C30: the snapshot of a first crawl of a page with exactly the price     *)
(* mentions $19 and $49 a month and pricing signals has confidence 0.90    *)
(* and is verified.                                                        *)
C30_FirstCrawlConfidence ==
    \A k \in 1..Len(snapshots) :
        /\ TwoPricesWithSignals(PageOf(snapshots[k].contentHash))
        /\ \A o \in 1..(k - 1) : snapshots[o].companyId # snapshots[k].companyId
        => /\ snapshots[k].confidence = 90
           /\ snapshots[k].isVerified

(***************************************************************************)
(* Properties of the URLs of a company.                                    *)
(***************************************************************************)
(* The host is the domain or ends with a dot and the domain. *)
HostWithin(hostname, domain) ==
    \E k \in 0..Len(hostname) : SubSeq(hostname, k + 1, Len(hostname)) = domain

(* The primary pricing URL of the document and its candidates are on the *)
(* document's domain.                                                    *)
Confined(company) ==
    /\ company.primaryPricingUrl # InvalidUrl
           => HostWithin(company.primaryPricingUrl.hostname, company.domain)
    /\ \A k \in 1..Len(company.pricingUrlCandidates) :
           HostWithin(company.pricingUrlCandidates[k].url.hostname, company.domain)

UrlWriters == {"companiesPost", "discoverPricing", "processCompanyDiscovery",
               "primaryPricingPatch"}

(* C31: the company document written by company creation, discover-pricing, *)
(* PATCH primary-pricing or the runner's discovery has its primary pricing  *)
(* URL and every candidate URL on the company's domain or a subdomain.      *)
C31_DomainConfinement ==
    (fn.done /\ fn.name \in UrlWriters /\ fn.output.status \in {0, 200, 201})
        => Confined(fn.output.company)

(***************************************************************************)
(* Properties of an item that throws.                                      *)
(***************************************************************************)
(* The messages of the errors the steps of an item throw. *)
Thrown == {"thrown", LongMessage}

(* C32: when a step of an item has thrown, the finally block stores        *)
(* lastCrawlStatus = error, the message cut to at most 400 characters and  *)
(* nextCrawlAt = now + 6 hours, emits a crawl_error audit event, and the   *)
(* batch goes on to its next claimed company.                              *)
C32_ErrorsAreLocal ==
    [][\A i \in Inv :
          (pc[i] = "finalize" /\ pc'[i] # "finalize" /\ item[i].finalErrorMessage \in Thrown)
              => LET it == item[i]
                     stored == companies'[it.company]
                 IN  /\ stored.lastCrawlStatus = "error"
                     /\ MessageLength(stored.lastCrawlError) <= 400
                     /\ MessageLength(it.finalErrorMessage) <= 400
                            => stored.lastCrawlError = it.finalErrorMessage
                     /\ stored.nextCrawlAt = it.now + 360
                     /\ stored.lastCrawlAt = it.now
                     /\ \E e \in auditEvents' :
                            /\ e.eventType = "crawl_error"
                            /\ e.companyId = it.company
                            /\ e.at = it.now
                     /\ batch[i].index < Len(batch[i].claimedCompanies)
                            => /\ pc'[i] = "process"
                               /\ batch'[i].index = batch[i].index + 1
                               /\ batch'[i].claimedCompanies = batch[i].claimedCompanies]_vars

(* An item whose step threw a long message was finalized, and the request *)
(* is at the next company of its batch.                                   *)
C32_Witness ==
    \E i \in Inv : \E c \in Comp :
        /\ pc[i] = "process"
        /\ batch[i].index = 2
        /\ batch[i].claimedCompanies[1].id = c
        /\ companies[c].lastCrawlStatus = "error"
        /\ companies[c].lastCrawlError = "thrown (first 397 characters)..."
        /\ companies[c].lastCrawlAt = batch[i].startedAt

(***************************************************************************)
(* Properties of an item whose owner has no access.                        *)
(***************************************************************************)
(* The owner of the company the request is at resolves to no access now. *)
OwnerLacksAccess(i) ==
    ~resolveEntitlements(users[CurrentCompany(i).userId], clock).hasAccess

(* C33: an item whose owner has no access when it is processed ends as     *)
(* idle without its page being fetched; its finally block stores           *)
(* lastCrawlStatus = idle, clears the lease, leaves latestContentHash as   *)
(* it was and emits no audit event; no snapshot, diff or insight is        *)
(* written for it.                                                         *)
C33_NotEntitledNoOutput ==
    [][\A i \in Inv :
          /\ (/\ pc[i] = "process" /\ pc'[i] # "process" /\ OwnerLacksAccess(i)
               /\ item'[i].finalStatus \notin {"error", "manual_needed"})
                 => /\ pc'[i] = "finalize"
                    /\ item'[i].finalStatus = "idle"
                    /\ item'[i].fetchedPage = NoHash
                    /\ item'[i].extraction = NoExtraction
                    /\ item'[i].latestContentHash = NoHash
                    /\ ~item'[i].snapshotCreated
                    /\ ~item'[i].diffCreated
                    /\ ~item'[i].insightCreated
                    /\ <<snapshots, diffs, insights, auditEvents>>'
                           = <<snapshots, diffs, insights, auditEvents>>
          /\ (pc[i] = "finalize" /\ pc'[i] # "finalize" /\ item[i].finalStatus = "idle")
                 => LET c == item[i].company
                    IN  /\ companies'[c].lastCrawlStatus = "idle"
                        /\ companies'[c].crawlLeaseUntil = Absent
                        /\ companies'[c].latestContentHash = companies[c].latestContentHash
                        /\ <<snapshots, diffs, insights, auditEvents>>'
                               = <<snapshots, diffs, insights, auditEvents>>]_vars

(* A company that was crawled before was finalized as idle once its owner's *)
(* trial had run out; its hash is still the one of the earlier crawl.       *)
C33_Witness ==
    \E c \in Comp :
        /\ companies[c].lastCrawlStatus = "idle"
        /\ companies[c].lastCrawlAt # Absent
        /\ companies[c].crawlLeaseUntil = Absent
        /\ companies[c].latestContentHash # NoHash
        /\ users[companies[c].userId].trialEndsAt <= companies[c].lastCrawlAt

(***************************************************************************)
(* Properties of an item whose page is a bot-protection page.              *)
(***************************************************************************)
(* The page the item fetched was served as HTML and carries a block signal. *)
FetchedBlockedPage(it) ==
    \E f \in FetchResults :
        /\ f.ok /\ f.status = 200 /\ f.page.html /\ f.page.blockedText
        /\ f.page.contentHash = it.fetchedPage

Compared == fn.name = "generatePricingDiff" /\ fn.done /\ fn.output # NoDiff

(* The two buckets of the compared snapshots. *)
Buckets == {fn.input.monthly, fn.input.yearly}

(* The pairs of a bucket that count as updated: they differ by half a      *)
(* dollar or more and by one percent or more.                              *)
UpdatedPairs(bucket) ==
    {<<bucket.previous[k], bucket.current[k]>> :
        k \in {n \in 1..Min(Len(bucket.previous), Len(bucket.current)) :
                  /\ Abs(bucket.current[n] - bucket.previous[n]) >= 50
                  /\ Abs(bucket.current[n] - bucket.previous[n]) * 100 >= bucket.previous[n]}}

AllUpdatedPairs == UNION {UpdatedPairs(bucket) : bucket \in Buckets}

TotalAdded ==
    Max(Len(fn.input.monthly.current) - Len(fn.input.monthly.previous), 0)
    + Max(Len(fn.input.yearly.current) - Len(fn.input.yearly.previous), 0)

TotalRemoved ==
    Max(Len(fn.input.monthly.previous) - Len(fn.input.monthly.current), 0)
    + Max(Len(fn.input.yearly.previous) - Len(fn.input.yearly.current), 0)

TotalUpdated == Cardinality(UpdatedPairs(fn.input.monthly)) + Cardinality(UpdatedPairs(fn.input.yearly))

HintChanged == Range(fn.input.hints.previous) # Range(fn.input.hints.current)

(* The percent change of an updated pair, as the diff records it with two *)
(* decimals, is at least n: 19.995 percent and more is recorded as 20.00.  *)
ChangedBy(pair, n) == Abs(pair[2] - pair[1]) * 100000 >= (n * 1000 - 5) * pair[1]

ExpectedSeverity ==
    IF \/ \E pair \in AllUpdatedPairs : ChangedBy(pair, 20)
       \/ (TotalAdded >= 2 /\ TotalRemoved >= 2)
    THEN "high"
    ELSE IF \/ \E pair \in AllUpdatedPairs : ChangedBy(pair, 10)
            \/ TotalUpdated + TotalAdded + TotalRemoved >= 2
            \/ HintChanged
         THEN "medium"
    ELSE "low"

RecordedPairs ==
    UNION {{<<u.previousAmount, u.currentAmount>> : u \in change.updatedAmounts} :
              change \in fn.output.priceChanges}

SnapshotsOf(c) == {k \in 1..Len(snapshots) : snapshots[k].companyId = c}

(* C36: when the runner found no prior snapshot of the company, its write  *)
(* step adds the snapshot and neither a diff nor an insight and ends the   *)
(* item as ok; the finally block then stores lastCrawlStatus = ok and      *)
(* nextCrawlAt = now + 24 h, and a primary pricing URL that this item      *)
(* discovered.                                                             *)
C36_FirstSnapshotNoDiff ==
    [][\A i \in Inv :
          /\ (/\ pc[i] = "snapshot_create" /\ pc'[i] # "snapshot_create"
               /\ item[i].previousSnapshot = 0)
                 => /\ Len(snapshots') = Len(snapshots) + 1
                    /\ snapshots'[Len(snapshots')].companyId = item[i].company
                    /\ snapshots'[Len(snapshots')].contentHash = item[i].extraction.contentHash
                    /\ diffs' = diffs
                    /\ insights' = insights
                    /\ item'[i].finalStatus = "ok"
                    /\ item'[i].snapshotCreated
                    /\ ~item'[i].diffCreated /\ ~item'[i].insightCreated
          /\ (/\ pc[i] = "finalize" /\ pc'[i] # "finalize"
               /\ item[i].snapshotCreated /\ item[i].previousSnapshot = 0)
                 => LET c == item[i].company
                    IN  /\ companies'[c].lastCrawlStatus = "ok"
                        /\ companies'[c].nextCrawlAt = item[i].now + 24 * 60
                        /\ <<diffs, insights>>' = <<diffs, insights>>
                        /\ item[i].discoveredPrimaryPricingUrl # NoUrl
                              => companies'[c].primaryPricingUrl
                                    = item[i].discoveredPrimaryPricingUrl]_vars

(* A company without a primary pricing URL has been crawled once: it has   *)
(* its first snapshot, the discovered URL, status ok and is due a day      *)
(* later; nothing has been diffed.                                         *)
C36_Witness ==
    \E c \in Comp :
        /\ InitCompany(c).primaryPricingUrl = NoUrl
        /\ companies[c].primaryPricingUrl = "https://c.example/plans"
        /\ Cardinality(SnapshotsOf(c)) = 1
        /\ companies[c].lastCrawlStatus = "ok"
        /\ companies[c].nextCrawlAt = companies[c].lastCrawlAt + 24 * 60
        /\ \A k \in 1..Len(diffs) : diffs[k].companyId # c
        /\ \A k \in 1..Len(insights) : insights[k].companyId # c

(***************************************************************************)
(* Properties of the stored content hash.                                  *)
(***************************************************************************)
(* C37: whenever the finally block of an item stores a latestContentHash   *)
(* that differs from the one stored before, a snapshot of the company with *)
(* that content hash exists.                                               *)
C37_HashHasSnapshot ==
    [][\A i \in Inv :
          (pc[i] = "finalize" /\ pc'[i] # "finalize")
             => LET c == item[i].company
                IN  companies'[c].latestContentHash # companies[c].latestContentHash
                       => \E k \in SnapshotsOf(c) :
                             snapshots[k].contentHash = companies'[c].latestContentHash]_vars

(***************************************************************************)
(* Properties of the write rate limiter.                                   *)
(***************************************************************************)
(* The calls answered allowed: true against the window opened at an instant. *)
AdmittedIn(window) ==
    {k \in Writers : writer[k].pc = "answered" /\ writer[k].allowed /\ writer[k].window = window}

(* C38: in every fixed window of the counter at most           *)
(* maxRequests calls have been answered allowed: true.                     *)
C38_NeverOverAdmits ==
    \A window \in 0..MaxTicks : Cardinality(AdmittedIn(window)) <= WriteLimit.maxRequests

(* A call that is answered allowed: false leaves the counter as it was and *)
(* reports retryAfterSeconds >= 0.                                         *)
DeniedLeavesCount ==
    [][\A k \in Writers :
          (writer[k].pc # "answered" /\ writer'[k].pc = "answered" /\ ~writer'[k].allowed)
             => /\ rateLimitCounter' = rateLimitCounter
                /\ writer'[k].retryAfterSeconds >= 0]_vars

SomeCallDenied ==
    \E k \in Writers : writer[k].pc = "answered" /\ ~writer[k].allowed

(***************************************************************************)
(* Properties of the billing-event ledger.                                 *)
(***************************************************************************)
(* The delivery was told to process the event in this step. *)
ToldToProcess(d) == delivery[d].pc # "handling" /\ delivery'[d].pc = "handling"

(* The delivery is handling the event under a lock that has not run out. *)
HandlesUnderLock(d) ==
    /\ delivery[d].pc = "handling"
    /\ delivery[d].lockExpiresAt # Absent
    /\ delivery[d].lockExpiresAt > clock

(* C39, first part: no delivery is told to process the event while another *)
(* one handles it under a lock that has not run out.                       *)
LedgerExcludes ==
    \A d \in Deliveries :
        ToldToProcess(d) => \A o \in Deliveries \ {d} : ~HandlesUnderLock(o)

(* C39, second part: once the record is processed, no delivery is told to  *)
(* process the event and the record does not go back to processing.        *)
LedgerKeepsProcessed ==
    (processedStripeEvent # NoEvent /\ processedStripeEvent.status = "processed")
       => /\ processedStripeEvent'.status # "processing"
          /\ \A d \in Deliveries : ~ToldToProcess(d)

(* C39: the ledger handles an event at most once.                          *)
C39_AtMostOnce == [][LedgerExcludes /\ LedgerKeepsProcessed]_vars

(***************************************************************************)
(* Properties of the trial lifecycle.                                      *)
(***************************************************************************)
TrialMoves ==
    {<<"not_started", "active">>, <<"not_started", "expired">>,
     <<"active", "expired">>, <<"active", "converted">>}

(* Request r of GET /entitlements/me saves and replies in this step. *)
RefreshStep(r) ==
    api[r].pc = "loaded" /\ api[r].route = "entitlements" /\ api'[r].pc = "responded"

(* C40: over the trial starts, refreshes, grants and revocations of the    *)
(* owners, made one after the other, trialStatus moves only from           *)
(* not_started to active or expired and from active to expired or          *)
(* converted; trialStartedAt and trialEndsAt keep a value once they have   *)
(* one; and a refresh repeated on what a refresh stored changes nothing.   *)
C40_TrialMonotonic ==
    [][/\ \A u \in Users :
             /\ \/ users'[u].trialStatus = users[u].trialStatus
                \/ <<users[u].trialStatus, users'[u].trialStatus>> \in TrialMoves
             /\ users[u].trialStartedAt # Absent
                   => users'[u].trialStartedAt = users[u].trialStartedAt
             /\ users[u].trialEndsAt # Absent
                   => users'[u].trialEndsAt = users[u].trialEndsAt
        /\ \A r \in Api :
             RefreshStep(r)
                => refreshTrialStatusIfExpired(users'[api[r].user], api[r].now)
                      = users'[api[r].user]]_vars

(* A user who had signed up and no more has started a trial, has been      *)
(* granted paid access, has lost it again and has then been refreshed: the *)
(* trial is converted and its dates are those of the start.                *)
C40_Witness ==
    \E u \in Users, r \in Api :
        /\ InitUser(u).trialStatus = "not_started" /\ ~InitUser(u).hasAccess
        /\ users[u].trialStatus = "converted"
        /\ ~users[u].hasAccess
        /\ users[u].trialStartedAt # Absent
        /\ users[u].trialEndsAt = users[u].trialStartedAt + TRIAL_MS
        /\ api[r].pc = "responded" /\ api[r].route = "entitlements" /\ api[r].user = u
        /\ api[r].reason = "converted"

====
